---- MODULE Spec2Model ----
(***************************************************************************)
(* Model of RetrievalModule (src/app/modules/retrieval_rerank.py): the     *)
(* collection-schema lifecycle (initialize, hybrid compatibility check,    *)
(* migration), ingestion and the tiered hybrid search, over an abstract    *)
(* vector store.  Every `await asyncio.to_thread(...)` of the source is    *)
(* one step of the task that issues it; the code between two awaits runs   *)
(* atomically with the call that precedes it (asyncio event loop).         *)
(***************************************************************************)
EXTENDS Integers, Sequences, FiniteSets, TLC

\* ---------------------------------------------------------------- bounds
NTasks == 2
MaxTime == 1
MaxInitPoints == 1
MaxBatches == 1
MaxSubqueries == 2

\* line 545: expanded_queries[:3]
MaxExpansions == 3

\* task 0 runs initialize(); tasks 1..NTasks are the concurrent callers
MainTask == 0
Workers == 1..NTasks
Tasks == {MainTask} \cup Workers

\* ------------------------------------------------------- store vocabulary
collection_name == "documents"
BackupNames ==
  <<"documents_backup_0", "documents_backup_1", "documents_backup_2",
    "documents_backup_3">>
BackupName(t) == BackupNames[t + 1]
CollNames == {collection_name} \cup {BackupName(t) : t \in 0..MaxTime}

NoColl == [exists |-> FALSE, dense |-> {}, asDict |-> FALSE, sparse |-> {},
           pts |-> {}]

\* vector configuration of a collection: `dense` are the names of the dense
\* vector fields ("" is the unnamed default field), `asDict` tells whether
\* config.params.vectors is reported as a dict of named fields, `sparse` are
\* the names of the sparse vector fields.
VectorsOnly(dense, asDict) ==
  [dense |-> dense, asDict |-> asDict, sparse |-> {}]
DenseOnlySchema == [dense |-> {""}, asDict |-> FALSE, sparse |-> {}]
HybridSchema == [dense |-> {""}, asDict |-> FALSE, sparse |-> {"keywords"}]
LegacySparseSchema == [dense |-> {""}, asDict |-> FALSE, sparse |-> {"sparse"}]
NamedSchema == [dense |-> {"dense", "sparse"}, asDict |-> TRUE, sparse |-> {}]
Schemas == {DenseOnlySchema, HybridSchema, LegacySparseSchema, NamedSchema}

SchemaOf(c) == [dense |-> c.dense, asDict |-> c.asDict, sparse |-> c.sparse]
MkColl(s, pts) ==
  [exists |-> TRUE, dense |-> s.dense, asDict |-> s.asDict,
   sparse |-> s.sparse, pts |-> pts]

\* a point: its id and whether it carries a "keywords" sparse vector next to
\* its unnamed dense vector
Point(i, sp) == [id |-> i, sp |-> sp]
PointFits(p, c) == "" \in c.dense /\ (p.sp => "keywords" \in c.sparse)

VARIABLES
  colls,                  \* the vector store: collection name -> collection
  now,                    \* int(asyncio.get_event_loop().time())
  hybrid_enabled,         \* self.hybrid_enabled
  sparse_embedder,        \* self.sparse_embedder is not None
  checked,                \* self._hybrid_compatibility_checked
  collection_initialized, \* self._collection_initialized
  stats,                  \* self.stats
  query_expansion_enabled, \* query expansion enabled and its engine built
  lockHolder,             \* task holding self._collection_lock (NoTask: free)
  lockWaiters,            \* FIFO of tasks waiting for self._collection_lock
  initialized,            \* progress of initialize(): no/running/ready/failed
  nextId,                 \* next fresh point id (uuid4)
  tasks,                  \* per task: position and local variables
  migrations,             \* number of _safe_migrate_to_hybrid_collection runs
  faulted,                \* some store or embedder call has raised
  main0,                  \* the collection as initialize() found it
  pipe,                   \* one search() call: its options and result lists
  fusion,                 \* one _rrf_fusion call: its arguments and result
  rr                      \* one rerank() call: its arguments and result

moduleVars == <<colls, now, hybrid_enabled, sparse_embedder, checked,
                query_expansion_enabled,
                collection_initialized, stats, lockHolder, lockWaiters,
                initialized, nextId, tasks, migrations, faulted, main0>>

vars == <<moduleVars, pipe, fusion, rr>>

\* module state that the schema lifecycle and ingestion never write
restVars == <<query_expansion_enabled, main0, pipe, fusion, rr>>

IdleTask ==
  [pc |-> "idle", op |-> "none", initRet |-> "none", ensRet |-> "none",
   bname |-> collection_name, count |-> 0, vconf |-> DenseOnlySchema,
   scrolled |-> {}, migStart |-> {}, chunkSp |-> FALSE, ptSp |-> FALSE,
   batches |-> 0, subLeft |-> 0, expanded |-> FALSE, dsRet |-> "none",
   ev |-> {}, hres |-> "none", got |-> FALSE, out |-> "none",
   failed |-> FALSE, result |-> "none"]

Main == colls[collection_name]
Min(a, b) == IF a < b THEN a ELSE b

\* ------------------------------------------------------------ store calls
\* Each call either takes effect and returns, or raises and changes nothing.
CreateCollection(name, schema) ==
  [colls EXCEPT ![name] = MkColl(schema, {})]
DeleteCollection(name) == [colls EXCEPT ![name] = NoColl]
Upsert(name, points) ==
  [colls EXCEPT ![name].pts =
     {q \in @ : q.id \notin {p.id : p \in points}} \cup points]
CanCreate(name) == ~colls[name].exists
CanUpsert(name, points) ==
  colls[name].exists /\ \A p \in points : PointFits(p, colls[name])

\* ----------------------------------------------------------- asyncio.Lock
NoTask == 0 - 1
\* a lock that never makes a caller wait
LockAlwaysFree == TRUE

\* Lock.acquire takes the lock at once only if nobody holds or awaits it
LockFree == lockHolder = NoTask /\ lockWaiters = <<>>
\* leaving the block without releasing the lock
ReleaseForgotten == UNCHANGED <<lockHolder, lockWaiters>>

\* Lock.release: free, or the first waiter is woken and gets the lock
Release ==
  IF lockWaiters = <<>>
  THEN lockHolder' = NoTask /\ lockWaiters' = lockWaiters
  ELSE lockHolder' = Head(lockWaiters) /\ lockWaiters' = Tail(lockWaiters)

\* ---------------------------------------------------------- continuations
\* what a task does, without suspending, after the call it awaited returned
Goto(t, r) ==
  /\ tasks' = [tasks EXCEPT ![t] = r]
  /\ UNCHANGED restVars
  /\ UNCHANGED <<hybrid_enabled, checked, lockHolder, lockWaiters, initialized>>

Finish(r, res) == [r EXCEPT !.pc = "done", !.result = res]

\* a call awaited by the task raised
Raised(r) == [r EXCEPT !.failed = TRUE]

\* the caller of _ensure_hybrid_collection_compatibility resumes: a direct
\* caller is done, add_documents builds its points (lines 460-491)
AfterEnsure(r, hyb) ==
  IF r.ensRet = "add"
  THEN [r EXCEPT !.pc = "add_upsert", !.ptSp = hyb /\ r.chunkSp]
  ELSE Finish(r, "returned")

\* leaving the `async with self._collection_lock` block
EnsLeave(t, r, chk, hyb) ==
  /\ checked' = chk
  /\ hybrid_enabled' = hyb
  /\ Release
  /\ tasks' = [tasks EXCEPT ![t] = AfterEnsure(r, hyb)]
  /\ UNCHANGED initialized

\* lines 353-355 (and 325-326): the check completed
EnsOk(t, r) == EnsLeave(t, r, TRUE, hybrid_enabled)

\* the except branch without line 363
EnsFailKeepsHybrid(t, r) == EnsLeave(t, r, TRUE, hybrid_enabled)

\* lines 357-363: the except branch of the check
EnsFail(t, r) == EnsLeave(t, r, TRUE, FALSE)

\* lines 436-440: the except branch of the migration recomputes the backup
\* name from the clock and goes on to delete that collection
MigFail(t, r) ==
  Goto(t, [r EXCEPT !.pc = "mig_cleanup", !.bname = BackupName(now)])

\* lines 113-115: initialize() re-raises
BootFail(t, r) ==
  /\ initialized' = "failed"
  /\ tasks' = [tasks EXCEPT ![t] = Finish(r, "raised")]
  /\ UNCHANGED restVars
  /\ UNCHANGED <<hybrid_enabled, checked, lockHolder, lockWaiters>>

\* lines 1486-1492: recreate_collection returns, or logs and re-raises
RecreateEnds(t, r, res) ==
  /\ initialized' = "ready"
  /\ tasks' = [tasks EXCEPT ![t] = Finish(r, res)]
  /\ UNCHANGED <<hybrid_enabled, checked, lockHolder, lockWaiters>>

\* lines 253-255: _init_collection re-raises to its caller; in
\* delete_all_documents the handler of line 1358 goes on to the manual creation
InitFail(t, r) ==
  CASE r.initRet = "boot" -> BootFail(t, r)
    [] r.initRet = "rc" -> RecreateEnds(t, r, "raised")
    [] r.initRet = "da" -> Goto(t, [r EXCEPT !.pc = "da_embed"])
    [] r.initRet = "ens" -> EnsFail(t, r)
    [] OTHER -> MigFail(t, r)

\* _init_collection returned to its caller
InitOk(t, r) ==
  CASE r.initRet = "boot" ->
         /\ initialized' = "ready"
         /\ tasks' = [tasks EXCEPT ![t] = Finish(r, "returned")]
         /\ UNCHANGED <<hybrid_enabled, checked, lockHolder, lockWaiters>>
    [] r.initRet = "rc" -> RecreateEnds(t, r, "returned")
    [] r.initRet = "da" -> Goto(t, [r EXCEPT !.pc = "da_final"])
    [] OTHER -> EnsOk(t, r)

\* the lock without the second look at the flag
RecheckSkipped == FALSE

\* line 310: the second look at the flag, under the lock
RecheckUnderLock == checked

\* lines 304-311: entry of _ensure_hybrid_collection_compatibility
EnsEnter(t, r) ==
  IF checked \/ ~hybrid_enabled
  THEN Goto(t, AfterEnsure(r, hybrid_enabled))
  ELSE IF LockFree
  THEN /\ lockHolder' = t
       /\ tasks' = [tasks EXCEPT ![t] = [r EXCEPT !.pc = "ens_list"]]
       /\ UNCHANGED <<hybrid_enabled, checked, lockWaiters, initialized>>
  ELSE /\ lockWaiters' = Append(lockWaiters, t)
       /\ tasks' = [tasks EXCEPT ![t] = [r EXCEPT !.pc = "ens_wait",
                                                 !.ev = @ \cup {"waited"}]]
       /\ UNCHANGED <<hybrid_enabled, checked, lockHolder, initialized>>

\* lines 333-345: does the existing collection need the migration ?
NeedsHybridSupport(c) ==
  IF c.asDict THEN "sparse" \notin c.dense ELSE TRUE

\* lines 287-299: _update_collection_stats, when get_collection returned
UpdateCollectionStats ==
  [stats EXCEPT !.total_documents = Cardinality(Main.pts)]

\* _init_collection always taking its dense-only branch
InitSchemaDenseOnly == DenseOnlySchema

\* lines 204-241: the schema _init_collection creates
InitSchema ==
  IF hybrid_enabled /\ sparse_embedder THEN HybridSchema ELSE DenseOnlySchema

\* ------------------------------------------------------------------ Init
InitPointSets(schema) ==
  {P \in SUBSET {Point(i, sp) : i \in 1..MaxInitPoints, sp \in BOOLEAN} :
     /\ \A p, q \in P : p.id = q.id => p = q
     /\ \A p \in P : PointFits(p, schema)}

InitMainColls ==
  {NoColl} \cup UNION {{MkColl(s, P) : P \in InitPointSets(s)} : s \in Schemas}

\* lines 48-89: the module as constructed, over any state of the store
InitModule ==
  /\ main0 \in InitMainColls
  /\ colls = [n \in CollNames |-> IF n = collection_name THEN main0
                                  ELSE NoColl]
  /\ now = 0
  /\ hybrid_enabled = FALSE
  /\ sparse_embedder = FALSE
  /\ checked = FALSE
  /\ collection_initialized = FALSE
  /\ stats = [total_searches |-> 0, total_documents |-> 0,
              hybrid_searches |-> 0, query_expansions |-> 0]
  /\ query_expansion_enabled = FALSE
  /\ lockHolder = NoTask
  /\ lockWaiters = <<>>
  /\ initialized = "no"
  /\ nextId = MaxInitPoints + 1
  /\ tasks = [t \in Tasks |-> IdleTask]
  /\ migrations = 0
  /\ faulted = FALSE

\* no search() call is followed through its result lists
IdlePipe == [pc |-> "idle"]

\* no _rrf_fusion call and no rerank() call is followed
IdleFusion == [pc |-> "idle"]
IdleRerank == [pc |-> "idle"]

Init == InitModule /\ pipe = IdlePipe /\ fusion = IdleFusion /\ rr = IdleRerank

At(t, label) == tasks[t].pc = label
Fault(ok) == faulted' = (faulted \/ ~ok)

\* the event loop clock passes a whole second
Tick ==
  /\ now < MaxTime
  /\ now' = now + 1
  /\ UNCHANGED restVars
  /\ UNCHANGED <<colls, hybrid_enabled, sparse_embedder, checked,
                 collection_initialized, stats, lockHolder,
                 lockWaiters, initialized, nextId, tasks, migrations, faulted>>

\* ------------------------------------------------------------ initialize
\* lines 91-97 and 159-183: initialize() starts with _init_sparse_embedder
StartInitialize(t) ==
  /\ At(t, "idle") /\ initialized = "no" /\ t = MainTask
  /\ \E enabled \in BOOLEAN :
       /\ hybrid_enabled' = enabled
       /\ sparse_embedder' = enabled
  /\ initialized' = "running"
  /\ tasks' = [tasks EXCEPT ![t] = [@ EXCEPT !.pc = "boot_qdrant",
                                               !.op = "initialize"]]
  /\ UNCHANGED restVars
  /\ UNCHANGED <<colls, now, checked, collection_initialized, stats,
                 lockHolder, lockWaiters, nextId, migrations, faulted>>

\* lines 126-157: _init_qdrant ends with a connection test
BootQdrant(t) ==
  /\ At(t, "boot_qdrant")
  /\ \E ok \in BOOLEAN :
       /\ Fault(ok)
       /\ IF ok
          THEN Goto(t, [tasks[t] EXCEPT !.pc = "init_list", !.initRet = "boot"])
          ELSE BootFail(t, Raised(tasks[t]))
  /\ UNCHANGED restVars
  /\ UNCHANGED <<colls, now, sparse_embedder, collection_initialized,
                 stats, nextId, migrations>>

\* ------------------------------------------------------ _init_collection
\* lines 189-192: get_collections
InitList(t) ==
  /\ At(t, "init_list")
  /\ \E ok \in BOOLEAN :
       /\ Fault(ok)
       /\ IF ok
          THEN Goto(t, [tasks[t] EXCEPT
                 !.pc = IF Main.exists THEN "init_stats" ELSE "init_embed"])
          ELSE InitFail(t, Raised(tasks[t]))
  /\ UNCHANGED restVars
  /\ UNCHANGED <<colls, now, sparse_embedder, collection_initialized,
                 stats, nextId, migrations>>

\* lines 196-199: the test embedding that gives the dense dimension
InitEmbed(t) ==
  /\ At(t, "init_embed")
  /\ \E ok \in BOOLEAN :
       /\ Fault(ok)
       /\ IF ok
          THEN Goto(t, [tasks[t] EXCEPT !.pc = "init_create"])
          ELSE InitFail(t, Raised(tasks[t]))
  /\ UNCHANGED restVars
  /\ UNCHANGED <<colls, now, sparse_embedder, collection_initialized,
                 stats, nextId, migrations>>

\* lines 204-243: create_collection, hybrid or dense-only
InitCreate(t) ==
  /\ At(t, "init_create")
  /\ \E ok \in {TRUE, FALSE} :
       /\ ok => CanCreate(collection_name)
       /\ Fault(ok)
       /\ IF ok
          THEN /\ colls' = CreateCollection(collection_name, InitSchema)
               /\ Goto(t, [tasks[t] EXCEPT !.pc = "init_stats"])
          ELSE /\ colls' = colls
               /\ InitFail(t, Raised(tasks[t]))
  /\ UNCHANGED restVars
  /\ UNCHANGED <<now, sparse_embedder, collection_initialized,
                 stats, nextId, migrations>>

\* lines 247-251 and 287-299: _update_collection_stats swallows its errors;
\* initialize() then ends with _init_query_expansion (lines 105-109, 1527-1544)
InitStats(t) ==
  /\ At(t, "init_stats")
  /\ \E ok \in BOOLEAN :
       /\ ok => Main.exists
       /\ Fault(ok)
       /\ stats' = IF ok THEN UpdateCollectionStats ELSE stats
  /\ collection_initialized' = TRUE
  /\ InitOk(t, tasks[t])
  /\ query_expansion_enabled' \in
       IF tasks[t].initRet = "boot" THEN BOOLEAN
       ELSE {query_expansion_enabled}
  /\ UNCHANGED <<main0, pipe, fusion, rr>>
  /\ UNCHANGED <<colls, now, sparse_embedder, nextId, migrations>>

\* ------------------------------- _ensure_hybrid_collection_compatibility
\* a task calls the check directly
StartEnsure(t) ==
  /\ At(t, "idle") /\ initialized = "ready" /\ t \in Workers
  /\ Goto(t, [tasks[t] EXCEPT !.pc = "ens_enter", !.op = "ensure",
                              !.ensRet = "direct"])
  /\ UNCHANGED restVars
  /\ UNCHANGED <<colls, now, sparse_embedder, collection_initialized,
                 stats, nextId, migrations, faulted>>

\* lines 304-311, lock free or already held
EnsureEnter(t) ==
  /\ At(t, "ens_enter")
  /\ EnsEnter(t, tasks[t])
  /\ UNCHANGED restVars
  /\ UNCHANGED <<colls, now, sparse_embedder, collection_initialized,
                 stats, nextId, migrations, faulted>>

\* lines 308-311: the lock was handed to a waiting task
EnsWake(t) ==
  /\ At(t, "ens_wait") /\ lockHolder = t
  /\ IF RecheckUnderLock
     THEN EnsLeave(t, tasks[t], checked, hybrid_enabled)
     ELSE Goto(t, [tasks[t] EXCEPT !.pc = "ens_list"])
  /\ UNCHANGED restVars
  /\ UNCHANGED <<colls, now, sparse_embedder, collection_initialized,
                 stats, nextId, migrations, faulted>>

\* lines 316-326: get_collections; a missing collection is created
EnsList(t) ==
  /\ At(t, "ens_list")
  /\ \E ok \in BOOLEAN :
       /\ Fault(ok)
       /\ IF ok
          THEN Goto(t, IF Main.exists
                       THEN [tasks[t] EXCEPT !.pc = "ens_info"]
                       ELSE [tasks[t] EXCEPT !.pc = "init_list",
                                             !.initRet = "ens"])
          ELSE EnsFail(t, Raised(tasks[t]))
  /\ UNCHANGED restVars
  /\ UNCHANGED <<colls, now, sparse_embedder, collection_initialized,
                 stats, nextId, migrations>>

\* lines 328-355 and 367-371: get_collection, the schema test, and either
\* the start of the migration or the end of the check
EnsInfo(t) ==
  /\ At(t, "ens_info")
  /\ \E ok \in BOOLEAN :
       /\ ok => Main.exists
       /\ Fault(ok)
       /\ IF ~ok
          THEN EnsFail(t, Raised(tasks[t])) /\ migrations' = migrations
          ELSE IF NeedsHybridSupport(Main)
          THEN /\ Goto(t, [tasks[t] EXCEPT !.pc = "mig_info",
                                           !.bname = BackupName(now),
                                           !.migStart = Main.pts])
               /\ migrations' = migrations + 1
          ELSE EnsOk(t, tasks[t]) /\ migrations' = migrations
  /\ UNCHANGED restVars
  /\ UNCHANGED <<colls, now, sparse_embedder, collection_initialized,
                 stats, nextId>>

\* ----------------------------------- _safe_migrate_to_hybrid_collection
\* lines 373-380 and 393: points_count and the vectors configuration
MigInfo(t) ==
  /\ At(t, "mig_info")
  /\ \E ok \in BOOLEAN :
       /\ ok => Main.exists
       /\ Fault(ok)
       /\ IF ok
          THEN Goto(t, [tasks[t] EXCEPT
                 !.count = Cardinality(Main.pts),
                 !.vconf = VectorsOnly(Main.dense, Main.asDict),
                 !.pc = IF Main.pts = {} THEN "mig_delete0"
                        ELSE "mig_backup"])
          ELSE MigFail(t, Raised(tasks[t]))
  /\ UNCHANGED restVars
  /\ UNCHANGED <<colls, now, sparse_embedder, collection_initialized,
                 stats, nextId, migrations>>

\* lines 380-387: no data, delete and recreate
MigDelete0(t) ==
  /\ At(t, "mig_delete0")
  /\ \E ok \in BOOLEAN :
       /\ Fault(ok)
       /\ IF ok
          THEN /\ colls' = DeleteCollection(collection_name)
               /\ Goto(t, [tasks[t] EXCEPT !.pc = "init_list",
                                           !.initRet = "mig0"])
          ELSE /\ colls' = colls
               /\ MigFail(t, Raised(tasks[t]))
  /\ UNCHANGED restVars
  /\ UNCHANGED <<now, sparse_embedder, collection_initialized,
                 stats, nextId, migrations>>

\* lines 389-398: the backup collection, with the original vectors config
MigBackup(t) ==
  /\ At(t, "mig_backup")
  /\ \E ok \in BOOLEAN :
       /\ ok => CanCreate(tasks[t].bname)
       /\ Fault(ok)
       /\ IF ok
          THEN /\ colls' = CreateCollection(tasks[t].bname, tasks[t].vconf)
               /\ Goto(t, [tasks[t] EXCEPT !.pc = "mig_scroll"])
          ELSE /\ colls' = colls
               /\ MigFail(t, Raised(tasks[t]))
  /\ UNCHANGED restVars
  /\ UNCHANGED <<now, sparse_embedder, collection_initialized,
                 stats, nextId, migrations>>

\* lines 400-410: one scroll page of existing_count points
MigScroll(t) ==
  /\ At(t, "mig_scroll")
  /\ \E ok \in BOOLEAN :
       /\ ok => Main.exists
       /\ Fault(ok)
       /\ IF ok
          THEN \E S \in SUBSET Main.pts :
                 /\ Cardinality(S) =
                      Min(tasks[t].count, Cardinality(Main.pts))
                 /\ Goto(t, [tasks[t] EXCEPT
                        !.scrolled = S,
                        !.pc = IF S = {} THEN "mig_delete"
                               ELSE "mig_upsert"])
          ELSE MigFail(t, Raised(tasks[t]))
  /\ UNCHANGED restVars
  /\ UNCHANGED <<colls, now, sparse_embedder, collection_initialized,
                 stats, nextId, migrations>>

\* lines 410-416: the points are written to the backup collection
MigUpsert(t) ==
  /\ At(t, "mig_upsert")
  /\ \E ok \in BOOLEAN :
       /\ ok => CanUpsert(tasks[t].bname, tasks[t].scrolled)
       /\ Fault(ok)
       /\ IF ok
          THEN /\ colls' = Upsert(tasks[t].bname, tasks[t].scrolled)
               /\ Goto(t, [tasks[t] EXCEPT !.pc = "mig_delete"])
          ELSE /\ colls' = colls
               /\ MigFail(t, Raised(tasks[t]))
  /\ UNCHANGED restVars
  /\ UNCHANGED <<now, sparse_embedder, collection_initialized,
                 stats, nextId, migrations>>

\* lines 418-426: the original collection is deleted, then recreated
MigDelete(t) ==
  /\ At(t, "mig_delete")
  /\ \E ok \in BOOLEAN :
       /\ Fault(ok)
       /\ IF ok
          THEN /\ colls' = DeleteCollection(collection_name)
               /\ Goto(t, [tasks[t] EXCEPT !.pc = "init_list",
                                           !.initRet = "mig"])
          ELSE /\ colls' = colls
               /\ MigFail(t, Raised(tasks[t]))
  /\ UNCHANGED restVars
  /\ UNCHANGED <<now, sparse_embedder, collection_initialized,
                 stats, nextId, migrations>>

\* lines 438-446: best-effort delete of the backup named in the handler,
\* its own errors swallowed, then the failure is re-raised to the check
MigCleanup(t) ==
  /\ At(t, "mig_cleanup")
  /\ \E ok \in BOOLEAN :
       /\ Fault(ok)
       /\ colls' = IF ok THEN DeleteCollection(tasks[t].bname) ELSE colls
  /\ EnsFail(t, tasks[t])
  /\ UNCHANGED restVars
  /\ UNCHANGED <<now, sparse_embedder, collection_initialized,
                 stats, nextId, migrations>>

\* ---------------------------------------------------------- add_documents
\* a task calls add_documents with `n` batches of chunks, all with or all
\* without a sparse embedding
StartAdd(t) ==
  /\ At(t, "idle") /\ initialized = "ready" /\ t \in Workers
  /\ \E sp \in BOOLEAN, n \in 0..MaxBatches :
       Goto(t, [tasks[t] EXCEPT !.pc = "add_enter", !.op = "add",
                                !.ensRet = "add", !.chunkSp = sp,
                                !.batches = n])
  /\ UNCHANGED restVars
  /\ UNCHANGED <<colls, now, sparse_embedder, collection_initialized,
                 stats, nextId, migrations, faulted>>

\* lines 450-491: the empty input, the compatibility check, the points
AddEnter(t) ==
  /\ At(t, "add_enter")
  /\ IF tasks[t].batches = 0
     THEN Goto(t, Finish(tasks[t], "true"))
     ELSE IF hybrid_enabled /\ tasks[t].chunkSp
     THEN EnsEnter(t, tasks[t])
     ELSE Goto(t, AfterEnsure(tasks[t], hybrid_enabled))
  /\ UNCHANGED restVars
  /\ UNCHANGED <<colls, now, sparse_embedder, collection_initialized,
                 stats, nextId, migrations, faulted>>

\* lines 493-512: one batch is upserted; an error is re-raised
AddUpsert(t) ==
  /\ At(t, "add_upsert")
  /\ \E ok \in BOOLEAN :
       /\ ok => CanUpsert(collection_name, {Point(nextId, tasks[t].ptSp)})
       /\ Fault(ok)
       /\ IF ok
          THEN /\ colls' = Upsert(collection_name,
                                  {Point(nextId, tasks[t].ptSp)})
               /\ nextId' = nextId + 1
               /\ Goto(t, [tasks[t] EXCEPT
                      !.batches = @ - 1,
                      !.pc = IF tasks[t].batches = 1 THEN "add_stats"
                             ELSE "add_upsert"])
          ELSE /\ colls' = colls
               /\ nextId' = nextId
               /\ Goto(t, Finish(tasks[t], "raised"))
  /\ UNCHANGED restVars
  /\ UNCHANGED <<now, sparse_embedder, collection_initialized,
                 stats, migrations>>

\* lines 514-518: the statistics are refreshed and True is returned
AddStats(t) ==
  /\ At(t, "add_stats")
  /\ \E ok \in BOOLEAN :
       /\ ok => Main.exists
       /\ Fault(ok)
       /\ stats' = IF ok THEN UpdateCollectionStats ELSE stats
  /\ Goto(t, Finish(tasks[t], "true"))
  /\ UNCHANGED restVars
  /\ UNCHANGED <<colls, now, sparse_embedder, collection_initialized,
                 nextId, migrations>>

\* ----------------------------------------------------------------- search
\* store queries: which of them the collection can answer
CanNativeQuery == Main.exists /\ "" \in Main.dense /\ "keywords" \in Main.sparse
CanDenseQuery == Main.exists /\ "" \in Main.dense
CanLegacySparseQuery == Main.exists /\ "sparse" \in Main.sparse

Log(r, events) == [r EXCEPT !.ev = @ \cup events]

\* the choice of line 557 made on the sparse embedder alone
NextSubByEmbedder(r) ==
  IF r.subLeft = 0
  THEN Finish([r EXCEPT !.out = IF r.got THEN "list" ELSE "empty"],
              "returned")
  ELSE IF sparse_embedder
  THEN [r EXCEPT !.ev = {"hybrid"}, !.hres = "none", !.pc = "hs_dense_embed"]
  ELSE [r EXCEPT !.ev = {"dense_path"}, !.hres = "none", !.pc = "dp_embed"]

\* lines 555-566: the next subquery starts, on the hybrid path or on the
\* dense path; lines 580-591: after the last one the results are fused,
\* validated and returned
NextSub(r) ==
  IF r.subLeft = 0
  THEN Finish([r EXCEPT !.out = IF r.got THEN "list" ELSE "empty"],
              "returned")
  ELSE IF hybrid_enabled /\ sparse_embedder
  THEN [r EXCEPT !.ev = {"hybrid"}, !.hres = "none", !.pc = "hs_dense_embed"]
  ELSE [r EXCEPT !.ev = {"dense_path"}, !.hres = "none", !.pc = "dp_embed"]

\* lines 574-578: the subquery is over (its results extended all_results, or
\* its exception was logged); `got` records that all_results received the
\* answer of a store query
SubDone(r) ==
  NextSub([r EXCEPT !.subLeft = @ - 1, !.got = @ \/ r.hres = "list"])

\* lines 559-560: _hybrid_search returned to search()
HybridReturned(t, r, res) ==
  /\ tasks' = [tasks EXCEPT ![t] = SubDone([r EXCEPT !.hres = res])]
  /\ stats' = [stats EXCEPT !.hybrid_searches = @ + 1]

\* _hybrid_search raising through search(), as without lines 556 and 576-578
HybridRaisedAborts(t, r) ==
  /\ tasks' = [tasks EXCEPT ![t] =
       Finish([Log(r, {"hs_raised"}) EXCEPT !.hres = "raised"], "raised")]
  /\ stats' = stats

\* lines 576-578: _hybrid_search raised into the subquery's handler
HybridRaised(t, r) ==
  /\ tasks' = [tasks EXCEPT ![t] =
       SubDone([Log(r, {"hs_raised"}) EXCEPT !.hres = "raised"])]
  /\ stats' = stats

\* _dense_search returned `res` to the place that called it
DenseReturned(t, r, res) ==
  IF r.dsRet = "dp"
  THEN /\ tasks' = [tasks EXCEPT ![t] = SubDone([r EXCEPT !.hres = res])]
       /\ stats' = stats
  ELSE HybridReturned(t, r, res)

\* lines 657-663: the except branch of _hybrid_search calls the legacy tier
EnterLegacy(t, r) ==
  /\ tasks' = [tasks EXCEPT ![t] =
       [Log(r, {"t1_raised", "lg_invoked"}) EXCEPT !.pc = "lg_dense_embed"]]
  /\ stats' = stats

\* lines 730-735: the except branch of _legacy_hybrid_search
LegacyExcept(t, r) ==
  /\ tasks' = [tasks EXCEPT ![t] =
       [Log(r, {"lg_raised"}) EXCEPT !.pc = "lg_exc_embed"]]
  /\ stats' = stats

\* a call of _dense_search from `from`
CallDense(t, r, from) ==
  /\ tasks' = [tasks EXCEPT ![t] = [r EXCEPT !.pc = "ds_search",
                                             !.dsRet = from]]
  /\ stats' = stats

searchFrame == <<colls, now, hybrid_enabled, sparse_embedder, checked,
                 query_expansion_enabled, collection_initialized, lockHolder,
                 lockWaiters, initialized, nextId, migrations, main0, pipe,
                 fusion, rr>>

\* lines 524-550: search() starts; without query expansion the original
\* query is the only subquery
StartSearch(t) ==
  /\ At(t, "idle") /\ initialized = "ready" /\ t \in Workers
  /\ stats' = [stats EXCEPT !.total_searches = @ + 1]
  /\ tasks' = [tasks EXCEPT ![t] =
       IF query_expansion_enabled
       THEN [@ EXCEPT !.op = "search", !.pc = "srch_expand"]
       ELSE NextSub([@ EXCEPT !.op = "search", !.subLeft = 1])]
  /\ UNCHANGED faulted
  /\ UNCHANGED searchFrame

\* lines 539-550 and 1546-1558: expand_query; at most 3 expansions are used
SearchExpand(t) ==
  /\ At(t, "srch_expand")
  /\ \E ok \in BOOLEAN :
       /\ Fault(ok)
       /\ IF ok
          THEN \E n \in 0..Min(MaxExpansions, MaxSubqueries - 1) :
                 /\ tasks' = [tasks EXCEPT ![t] =
                      NextSub([@ EXCEPT !.expanded = TRUE,
                                        !.subLeft = 1 + n])]
                 /\ stats' = [stats EXCEPT !.query_expansions = @ + 1]
          ELSE /\ tasks' = [tasks EXCEPT ![t] =
                      NextSub([@ EXCEPT !.subLeft = 1])]
               /\ stats' = stats
  /\ UNCHANGED searchFrame

\* lines 562-566: the dense path embeds the subquery
DenseEmbed(t) ==
  /\ At(t, "dp_embed")
  /\ \E ok \in BOOLEAN :
       /\ Fault(ok)
       /\ IF ok
          THEN CallDense(t, tasks[t], "dp")
          ELSE /\ tasks' = [tasks EXCEPT ![t] =
                      SubDone([@ EXCEPT !.hres = "raised"])]
               /\ stats' = stats
  /\ UNCHANGED searchFrame

\* lines 600-603: tier 1, dense embedding
HsDenseEmbed(t) ==
  /\ At(t, "hs_dense_embed")
  /\ \E ok \in BOOLEAN :
       /\ Fault(ok)
       /\ IF ok
          THEN /\ tasks' = [tasks EXCEPT ![t] =
                      [@ EXCEPT !.pc = "hs_sparse_embed"]]
               /\ stats' = stats
          ELSE EnterLegacy(t, tasks[t])
  /\ UNCHANGED searchFrame

\* lines 605-613: tier 1, sparse embedding: it raises, yields nothing, or
\* yields an embedding
HsSparseEmbed(t) ==
  /\ At(t, "hs_sparse_embed")
  /\ \E out \in {"raise", "none", "ok"} :
       /\ Fault(out # "raise")
       /\ CASE out = "raise" ->
                 EnterLegacy(t, Log(tasks[t], {"sparse_raised"}))
            [] out = "none" ->
                 CallDense(t, Log(tasks[t], {"sparse_none"}), "hs_none")
            [] OTHER ->
                 /\ tasks' = [tasks EXCEPT ![t] = [@ EXCEPT !.pc = "hs_native"]]
                 /\ stats' = stats
  /\ UNCHANGED searchFrame

\* the native tier without its `return results`
HsNativeFallsThrough(t) ==
  /\ At(t, "hs_native")
  /\ \E ok \in BOOLEAN :
       /\ ok => CanNativeQuery
       /\ Fault(ok)
       /\ IF ok
          THEN EnterLegacy(t, Log(tasks[t], {"native_q", "native_ok"}))
          ELSE EnterLegacy(t, Log(tasks[t], {"native_q", "native_raised"}))
  /\ UNCHANGED searchFrame

\* lines 621-655: tier 1, the native prefetch-and-fuse query
HsNative(t) ==
  /\ At(t, "hs_native")
  /\ \E ok \in BOOLEAN :
       /\ ok => CanNativeQuery
       /\ Fault(ok)
       /\ IF ok
          THEN HybridReturned(t, Log(tasks[t], {"native_q", "native_ok"}),
                              "list")
          ELSE EnterLegacy(t, Log(tasks[t], {"native_q", "native_raised"}))
  /\ UNCHANGED searchFrame

\* lines 676-679: legacy tier, dense embedding
LgDenseEmbed(t) ==
  /\ At(t, "lg_dense_embed")
  /\ \E ok \in BOOLEAN :
       /\ Fault(ok)
       /\ IF ok
          THEN /\ tasks' = [tasks EXCEPT ![t] =
                      [@ EXCEPT !.pc = "lg_sparse_embed"]]
               /\ stats' = stats
          ELSE LegacyExcept(t, tasks[t])
  /\ UNCHANGED searchFrame

\* lines 681-689: legacy tier, sparse embedding
LgSparseEmbed(t) ==
  /\ At(t, "lg_sparse_embed")
  /\ \E out \in {"raise", "none", "ok"} :
       /\ Fault(out # "raise")
       /\ CASE out = "raise" -> LegacyExcept(t, tasks[t])
            [] out = "none" ->
                 CallDense(t, Log(tasks[t], {"lg_none"}), "lg_none")
            [] OTHER ->
                 /\ tasks' = [tasks EXCEPT ![t] =
                        [@ EXCEPT !.pc = "lg_dense_q"]]
                 /\ stats' = stats
  /\ UNCHANGED searchFrame

\* lines 691-698: legacy tier, the dense query on the unnamed field
LgDenseQuery(t) ==
  /\ At(t, "lg_dense_q")
  /\ \E ok \in BOOLEAN :
       /\ ok => CanDenseQuery
       /\ Fault(ok)
       /\ IF ok
          THEN /\ tasks' = [tasks EXCEPT ![t] =
                      [Log(@, {"lg_q"}) EXCEPT !.pc = "lg_sparse_q"]]
               /\ stats' = stats
          ELSE LegacyExcept(t, Log(tasks[t], {"lg_q"}))
  /\ UNCHANGED searchFrame

\* lines 700-728: legacy tier, the sparse query on the field "sparse", then
\* the local RRF fusion and the min_score filter
LgSparseQuery(t) ==
  /\ At(t, "lg_sparse_q")
  /\ \E ok \in BOOLEAN :
       /\ ok => CanLegacySparseQuery
       /\ Fault(ok)
       /\ IF ok
          THEN HybridReturned(t, Log(tasks[t], {"lg_sq", "lg_ok"}), "list")
          ELSE LegacyExcept(t, Log(tasks[t], {"lg_sq"}))
  /\ UNCHANGED searchFrame

\* lines 732-735: the legacy tier's handler embeds the query again; if that
\* raises, the legacy tier raises into lines 664-669
LgExcEmbed(t) ==
  /\ At(t, "lg_exc_embed")
  /\ \E ok \in BOOLEAN :
       /\ Fault(ok)
       /\ IF ok
          THEN CallDense(t, tasks[t], "lg_exc")
          ELSE /\ tasks' = [tasks EXCEPT ![t] =
                      [Log(@, {"lg_propagated"}) EXCEPT !.pc = "hs_fb_embed"]]
               /\ stats' = stats
  /\ UNCHANGED searchFrame

\* lines 664-669: the last handler of _hybrid_search embeds the query again,
\* outside any try
HsFallbackEmbed(t) ==
  /\ At(t, "hs_fb_embed")
  /\ \E ok \in BOOLEAN :
       /\ Fault(ok)
       /\ IF ok
          THEN CallDense(t, tasks[t], "hs_fb")
          ELSE HybridRaised(t, tasks[t])
  /\ UNCHANGED searchFrame

\* lines 737-784: _dense_search; a failure of the query gives the empty list
DenseSearch(t) ==
  /\ At(t, "ds_search")
  /\ \E ok \in BOOLEAN :
       /\ ok => CanDenseQuery
       /\ Fault(ok)
       /\ IF ok
          THEN DenseReturned(t, Log(tasks[t], {"dense_q"}), "list")
          ELSE DenseReturned(t, Log(tasks[t], {"dense_q", "dense_failed"}),
                             "empty")
  /\ UNCHANGED searchFrame

SearchStep(t) ==
  \/ StartSearch(t) \/ SearchExpand(t) \/ DenseEmbed(t)
  \/ HsDenseEmbed(t) \/ HsSparseEmbed(t) \/ HsNative(t)
  \/ LgDenseEmbed(t) \/ LgSparseEmbed(t) \/ LgDenseQuery(t)
  \/ LgSparseQuery(t) \/ LgExcEmbed(t) \/ HsFallbackEmbed(t)
  \/ DenseSearch(t)

AddStep(t) == StartAdd(t) \/ AddEnter(t) \/ AddUpsert(t) \/ AddStats(t)

BootStep(t) ==
  \/ StartInitialize(t) \/ BootQdrant(t)
  \/ InitList(t) \/ InitEmbed(t) \/ InitCreate(t) \/ InitStats(t)

LifecycleStep(t) ==
  \/ BootStep(t)
  \/ StartEnsure(t) \/ EnsureEnter(t) \/ EnsWake(t) \/ EnsList(t)
  \/ EnsInfo(t)
  \/ MigInfo(t) \/ MigDelete0(t) \/ MigBackup(t) \/ MigScroll(t)
  \/ MigUpsert(t) \/ MigDelete(t) \/ MigCleanup(t)

\* initialize, then concurrent compatibility checks and ingestion
Next ==
  \/ \E t \in Tasks : LifecycleStep(t) \/ AddStep(t)
  \/ Tick

Spec == Init /\ [][Next]_vars

\* initialize, then concurrent direct calls of the compatibility check
NextEnsure ==
  \/ \E t \in Tasks : LifecycleStep(t)
  \/ Tick

SpecEnsure == Init /\ [][NextEnsure]_vars

\* initialize, then one search() call next to concurrent compatibility
\* checks (concurrent searches share only the statistics counters)
SearchTask == 1

NextSearch ==
  \/ \E t \in Tasks : LifecycleStep(t)
  \/ SearchStep(SearchTask)
  \/ Tick

SpecSearch == Init /\ [][NextSearch]_vars

\* initialize, then one search() call on its own
NextTiers == BootStep(MainTask) \/ SearchStep(SearchTask)

SpecTiers == Init /\ [][NextTiers]_vars

\* ===================================================================
\* Claims
\* ===================================================================
Callers == {t \in Workers : tasks[t].op = "ensure"}
AllReturned ==
  Callers # {} /\ \A t \in Workers : tasks[t].pc \in {"idle", "done"}
Backups == {colls[BackupName(k)] : k \in 0..MaxTime}
InMigration(u) ==
  \/ tasks[u].pc \in {"mig_info", "mig_delete0", "mig_backup", "mig_scroll",
                      "mig_upsert", "mig_delete", "mig_cleanup"}
  \/ /\ tasks[u].pc \in {"init_list", "init_embed", "init_create",
                         "init_stats"}
     /\ tasks[u].initRet \in {"mig0", "mig"}

\* C1: when tasks call the compatibility check concurrently, hybrid enabled,
\* on an existing dense-only collection without points, and no store or
\* embedder call raises, the migration runs exactly once (never twice), and
\* once all the calls have returned the collection exists with the hybrid
\* schema and no points.
C1_MigratesExactlyOnce ==
  (sparse_embedder /\ main0 = MkColl(DenseOnlySchema, {}))
    => /\ migrations <= 1
       /\ (AllReturned /\ ~faulted)
            => (migrations = 1 /\ Main = MkColl(HybridSchema, {}))

C1_Witness ==
  /\ sparse_embedder /\ main0 = MkColl(DenseOnlySchema, {})
  /\ ~faulted
  /\ Callers = Workers
  /\ AllReturned
  /\ migrations = 1
  /\ Main = MkColl(HybridSchema, {})

\* C2: a collection that already has the hybrid schema (unnamed dense field
\* plus the sparse field "keywords") is never migrated by the check: no
\* migration runs and the store is left as it was.
C2_HybridCollectionUntouched ==
  (main0.exists /\ SchemaOf(main0) = HybridSchema)
    => /\ migrations = 0
       /\ Main = main0
       /\ \A b \in Backups : ~b.exists

\* C3: when the migration deletes a dense-only original that holds points,
\* the backup collection exists with the original's schema and holds every
\* point the original holds at that moment.
C3_BackupCompleteAtDelete ==
  [][\A t \in Tasks :
       (/\ tasks[t].pc = "mig_delete"
        /\ tasks'[t].pc = "init_list"
        /\ SchemaOf(Main) = DenseOnlySchema)
         => /\ colls[tasks[t].bname].exists
            /\ SchemaOf(colls[tasks[t].bname]) = SchemaOf(Main)
            /\ Main.pts \subseteq colls[tasks[t].bname].pts]_vars

\* C4: every point that was in the collection when a migration began is, in
\* every later state, stored in the original collection or in a backup
\* collection.
C4_MigrationPreservesData ==
  \A t \in Tasks : \A p \in tasks[t].migStart :
    \/ p \in Main.pts
    \/ \E b \in Backups : p \in b.pts

\* C5: a compatibility check in which a step of the check or of the
\* migration raised still returns normally to its caller, and from its
\* return on the verified flag is set and hybrid mode is disabled.
C5_FailureDisablesHybrid ==
  \A t \in Workers :
    (tasks[t].op = "ensure" /\ tasks[t].failed /\ tasks[t].pc = "done")
      => /\ tasks[t].result = "returned"
         /\ checked
         /\ ~hybrid_enabled

C5_Witness ==
  \E t \in Workers :
    /\ tasks[t].op = "ensure" /\ tasks[t].failed /\ tasks[t].pc = "done"
    /\ migrations = 1
    /\ tasks[t].count > 0
    /\ ~Main.exists

\* C6: search() issues no hybrid query (the native fused query or the legacy
\* sparse query) before the compatibility check has completed.
C6_CheckBeforeHybridQuery ==
  [][\A t \in Tasks :
       (tasks[t].pc \in {"hs_native", "lg_sparse_q"} /\ tasks'[t] # tasks[t])
         => checked]_vars

\* C7: no upsert of add_documents executes while another task is inside the
\* migration.
C7_NoUpsertDuringMigration ==
  [][\A t \in Tasks :
       (tasks[t].pc = "add_upsert" /\ tasks'[t] # tasks[t])
         => \A u \in Tasks \ {t} : ~InMigration(u)]_vars

\* The `ev` of a task is the record of its current _hybrid_search call.
InHybrid(t) == "hybrid" \in tasks[t].ev
Saw(t, e) == e \in tasks[t].ev

\* C8 as stated: the legacy queries are issued only if the native fused
\* query raised, the dense-only search only if the legacy tier raised, and no
\* later tier runs once an earlier tier has returned a list.
C8_TiersOnlyAfterQueryRaised ==
  \A t \in Tasks : InHybrid(t) =>
    /\ (Saw(t, "lg_q") \/ Saw(t, "lg_sq")) => Saw(t, "native_raised")
    /\ Saw(t, "dense_q") => Saw(t, "lg_raised")
    /\ Saw(t, "native_ok") =>
         ~(Saw(t, "lg_invoked") \/ Saw(t, "lg_q") \/ Saw(t, "dense_q"))
    /\ Saw(t, "lg_ok") => ~Saw(t, "dense_q")

\* C8, amended: within one _hybrid_search call the legacy tier's queries are
\* issued only if the native tier raised (an embedding call or the fused
\* query), the dense-only search is issued only if the legacy tier raised or
\* a sparse embedding came back empty, and no later tier runs once an
\* earlier tier has returned a list.
C8_TiersInOrder ==
  \A t \in Tasks : InHybrid(t) =>
    /\ (Saw(t, "lg_invoked") \/ Saw(t, "lg_q") \/ Saw(t, "lg_sq"))
         => Saw(t, "t1_raised")
    /\ Saw(t, "dense_q") =>
         (Saw(t, "lg_raised") \/ Saw(t, "sparse_none") \/ Saw(t, "lg_none"))
    /\ Saw(t, "native_ok") =>
         ~(Saw(t, "lg_invoked") \/ Saw(t, "lg_q") \/ Saw(t, "dense_q"))
    /\ Saw(t, "lg_ok") => ~Saw(t, "dense_q")

C8_Witness ==
  \E t \in Tasks :
    /\ InHybrid(t)
    /\ Saw(t, "native_raised") /\ Saw(t, "lg_sq") /\ Saw(t, "lg_raised")
    /\ Saw(t, "dense_q")
    /\ tasks[t].pc = "done"

\* C9: when the sparse embedding fails in tier 1 (the embedder raises or
\* yields nothing), the legacy tier is not invoked and issues no query.
C9_SparseFailureSkipsLegacy ==
  \A t \in Tasks :
    (InHybrid(t) /\ (Saw(t, "sparse_raised") \/ Saw(t, "sparse_none")))
      => ~(Saw(t, "lg_invoked") \/ Saw(t, "lg_q") \/ Saw(t, "lg_sq"))

\* C10: _hybrid_search never raises; when the dense-only search fails it
\* returns the empty list.
C10_HybridSearchNeverRaises ==
  \A t \in Tasks : InHybrid(t) =>
    /\ ~Saw(t, "hs_raised")
    /\ tasks[t].hres # "raised"
    /\ Saw(t, "dense_failed") => tasks[t].hres = "empty"

\* C11: search() never raises to its caller because of a store, embedder or
\* query-expansion failure: every finished search() call has returned, and
\* when no subquery obtained an answer from the store (each one raised or
\* ended in the failed dense-only search) it has returned the empty list
Searched(t) == tasks[t].op = "search" /\ tasks[t].pc = "done"

C11_SearchNeverRaises ==
  \A t \in Tasks :
    Searched(t) =>
      /\ tasks[t].result = "returned"
      /\ ~tasks[t].got => tasks[t].out = "empty"

C11_Witness ==
  \E t \in Tasks :
    /\ Searched(t) /\ tasks[t].result = "returned"
    /\ tasks[t].expanded /\ tasks[t].hres = "raised"
    /\ ~tasks[t].got /\ tasks[t].out = "empty"

\* ------------------------------------------------- search(): result lists
\* The store holds the documents Docs. Scores are exact fractions: the
\* integer n stands for the score n / One; One is a multiple of every
\* denominator the code divides by (ranks below MaxDocs, tenths, keyword
\* ratios), so every score the code computes is an integer here.
MaxDocs == 2
Docs == 1..MaxDocs

rrf_k == 60
dense_weight == 6
sparse_weight == 4

RECURSIVE RankProduct(_)
RankProduct(n) == IF n = 0 THEN 1 ELSE (rrf_k + n) * RankProduct(n - 1)

One == 400 * RankProduct(MaxDocs)

Max(a, b) == IF a >= b THEN a ELSE b

\* slices, comprehensions and list.sort(key=score, reverse=True), which is
\* stable: equal scores keep their order
Take(s, n) == SubSeq(s, 1, Min(n, Len(s)))
AtLeast(s, m) == SelectSeq(s, LAMBDA r : r.score >= m)
Ids(s) == {s[i].id : i \in 1..Len(s)}

RECURSIVE InsertDesc(_, _)
InsertDesc(s, x) ==
  IF s = <<>> THEN <<x>>
  ELSE IF Head(s).score >= x.score
  THEN <<Head(s)>> \o InsertDesc(Tail(s), x)
  ELSE <<x>> \o s

RECURSIVE SortDesc(_)
SortDesc(s) ==
  IF s = <<>> THEN <<>>
  ELSE InsertDesc(SortDesc(SubSeq(s, 1, Len(s) - 1)), s[Len(s)])

Sorted(s) == \A i \in 1..Len(s) - 1 : s[i].score >= s[i + 1].score

\* what the store answers to a nearest-neighbour query: at most n points,
\* each document once, by decreasing similarity
Hits(levels, n) ==
  UNION {{h \in [1..m -> [id : Docs, score : levels]] :
            /\ \A i, j \in 1..m : i # j => h[i].id # h[j].id
            /\ Sorted(h)} : m \in 0..Min(n, MaxDocs)}

\* _rrf_fusion reads the order of the points of an answer, not their scores
RankedPoints(n) == Hits({0}, n)

\* cosine similarities the store may report, and the scores of its own
\* fused query
DenseRaw == {0 - (6 * One) \div 5, 0, (4 * One) \div 5, One}
NativeScores == {One \div 4, One \div 2, (9 * One) \div 10}

\* what the payload of a document holds: its content (documents with equal
\* content hash alike), the keywords it shares with the query, and
\* metadata.get('query', '')
\* a text is the sequence of its characters; str.strip() drops the white
\* space at both ends
Blank == " "

RECURSIVE StripLeft(_)
StripLeft(c) ==
  IF c # <<>> /\ Head(c) = Blank THEN StripLeft(Tail(c)) ELSE c

RECURSIVE StripRight(_)
StripRight(c) ==
  IF c # <<>> /\ c[Len(c)] = Blank
  THEN StripRight(SubSeq(c, 1, Len(c) - 1)) ELSE c

Strip(c) == StripRight(StripLeft(c))

\* the content compared as stored
Unstripped(c) == c

\* line 756: hash(content.strip()), equal for equal stripped contents
ContentHash(c) == Strip(c)

Content(d) == ContentHash(pipe.content[d])
MetaQuery(d) == pipe.metaQuery[d]

\* lines 621-644: the store's fused query applies score_threshold and limit
QueryPoints(h, limit, threshold) == Take(AtLeast(h, threshold), limit)

\* lines 752-766: the first point of each content hash is kept
RECURSIVE UniqueByContent(_, _)
UniqueByContent(h, seen) ==
  IF h = <<>> THEN <<>>
  ELSE IF Content(Head(h).id) \in seen
  THEN UniqueByContent(Tail(h), seen)
  ELSE <<Head(h)>> \o
       UniqueByContent(Tail(h), seen \cup {Content(Head(h).id)})

\* the store's score taken as it is
RawScore(s) == s

\* line 761: max(0.0, min(1.0, (point.score + 1.0) / 2.0))
NormalizedScore(s) == Max(0, Min(One, (s + One) \div 2))

\* lines 749-781: _dense_search on the answer h of the store
DenseSearchResults(h, limit) ==
  LET u == UniqueByContent(h, {})
      n == [i \in 1..Len(u) |-> [id |-> u[i].id,
                                 score |-> NormalizedScore(u[i].score)]]
  IN  Take(SortDesc(n), limit)

\* the contribution with ranks counted from 1
RrfContributionFromOne(rank, weight) ==
  ((One \div (rrf_k + rank + 2)) * weight) \div 10

\* lines 801-802 and 813-814: (1 / (k + rank + 1)) * weight, rank from 0
RrfContribution(rank, weight) ==
  ((One \div (rrf_k + rank + 1)) * weight) \div 10

RankOf(points, d) == (CHOOSE i \in 1..Len(points) : points[i].id = d) - 1

RrfScore(dense_points, sparse_points, d) ==
  (IF d \in Ids(dense_points)
   THEN RrfContribution(RankOf(dense_points, d), dense_weight) ELSE 0)
  + (IF d \in Ids(sparse_points)
     THEN RrfContribution(RankOf(sparse_points, d), sparse_weight) ELSE 0)

\* lines 788-834: doc_scores keeps the dense points first, then the sparse
\* points not seen before; sorted by rrf_score, cut to limit
RrfFusion(dense_points, sparse_points, limit) ==
  LET docs == dense_points \o
              SelectSeq(sparse_points,
                        LAMBDA p : p.id \notin Ids(dense_points))
      scored == [i \in 1..Len(docs) |->
                   [id |-> docs[i].id,
                    score |-> RrfScore(dense_points, sparse_points,
                                       docs[i].id)]]
  IN  Take(SortDesc(scored), limit)

\* lines 1564-1574: result_groups holds, per id, the first result and the
\* scores and metadata 'query' values of all results with that id
RECURSIVE FirstOfEach(_, _)
FirstOfEach(s, seen) ==
  IF s = <<>> THEN <<>>
  ELSE IF Head(s).id \in seen THEN FirstOfEach(Tail(s), seen)
  ELSE <<Head(s)>> \o FirstOfEach(Tail(s), seen \cup {Head(s).id})

GroupOf(s, d) == SelectSeq(s, LAMBDA r : r.id = d)

RECURSIVE MaxScore(_)
MaxScore(g) ==
  IF Len(g) = 1 THEN g[1].score ELSE Max(Head(g).score, MaxScore(Tail(g)))

\* line 1585: len(set(group['queries'])) * 0.05
DiversityBonus(g) ==
  Cardinality({MetaQuery(g[i].id) : i \in 1..Len(g)}) * (One \div 20)

\* lines 1576-1602: _fuse_multi_query_results
FuseMultiQueryResults(all_results) ==
  LET firsts == FirstOfEach(all_results, {})
      fused == [i \in 1..Len(firsts) |->
                  LET g == GroupOf(all_results, firsts[i].id)
                  IN  [firsts[i] EXCEPT
                         !.score = MaxScore(g) + DiversityBonus(g)]]
  IN  SortDesc(fused)

\* the score left as it is, capped at 1
UnadjustedScore(r) == Min(One, r.score)

\* lines 1274-1280: result.score * (0.7 + 0.3 * relevance_ratio), capped at 1
AdjustedScore(r) ==
  Min(One, (r.score \div (10 * pipe.nKw))
             * (7 * pipe.nKw + 3 * pipe.kw[r.id]))

\* lines 1259-1289: _validate_search_quality; relevance_ratio > 0.1 or
\* result.score > 0.7 keeps a result
ValidateSearchQuality(results) ==
  IF pipe.nKw = 0 THEN results
  ELSE LET adj == [i \in 1..Len(results) |->
                     [results[i] EXCEPT !.score = AdjustedScore(results[i])]]
       IN  SelectSeq(adj, LAMBDA r :
             \/ 10 * pipe.kw[r.id] > pipe.nKw
             \/ 10 * r.score > 7 * One)

\* options, query and payloads of the followed search() call
Limits == {1, 2}
MinScores == {One \div 100, One \div 2}
QueryKeywords == {0, 2}
ContentMaps ==
  {[d \in Docs |-> [i \in 1..d |-> "x"]],
   [d \in Docs |-> IF d = 1 THEN <<"text">> ELSE <<Blank, "text", Blank>>]}
MetaQueryMaps == {[d \in Docs |-> ""],
                  [d \in Docs |-> IF d = 1 THEN "stored" ELSE ""]}

PipeInputs ==
  UNION {[pc : {"expand"}, limit : Limits, min_score : MinScores,
          nKw : {n}, kw : [Docs -> 0..n], content : ContentMaps,
          metaQuery : MetaQueryMaps,
          expanded : {FALSE}, nSub : {0}, subs : {<<>>},
          all_results : {<<>>}, final_results : {<<>>},
          quality_results : {<<>>}, returned : {<<>>}] : n \in QueryKeywords}

InitPipeline ==
  /\ InitModule /\ main0 = NoColl
  /\ pipe \in PipeInputs /\ fusion = IdleFusion /\ rr = IdleRerank

\* the results of subquery number q
Tag(s, q) == [i \in 1..Len(s) |-> [id |-> s[i].id, score |-> s[i].score,
                                   sub |-> q]]

\* lines 539-550: queries_to_search is the query alone, or the query and at
\* most 3 expansions
PsExpand ==
  /\ pipe.pc = "expand"
  /\ \E ok \in BOOLEAN :
       IF ok
       THEN \E n \in 0..Min(MaxExpansions, MaxSubqueries - 1) :
              pipe' = [pipe EXCEPT !.pc = "sub", !.expanded = TRUE,
                                   !.nSub = 1 + n]
       ELSE pipe' = [pipe EXCEPT !.pc = "sub", !.nSub = 1]
  /\ UNCHANGED <<moduleVars, fusion, rr>>

\* a subquery raising out of search(), as without lines 556 and 576-578
SubqueryAborts(raised, res) ==
  LET q == Len(pipe.subs) + 1
  IN  pipe' = [pipe EXCEPT
        !.subs = Append(@, [raised |-> raised, results |-> Tag(res, q)]),
        !.all_results = @ \o Tag(res, q),
        !.pc = IF raised THEN "done"
               ELSE IF q = pipe.nSub THEN "finish" ELSE "sub"]

\* lines 574-578: a subquery ends: its results extend all_results, or it
\* raised and the loop continues
SubqueryEnds(raised, res) ==
  LET q == Len(pipe.subs) + 1
  IN  pipe' = [pipe EXCEPT
        !.subs = Append(@, [raised |-> raised, results |-> Tag(res, q)]),
        !.all_results = @ \o Tag(res, q),
        !.pc = IF q = pipe.nSub THEN "finish" ELSE "sub"]

\* lines 555-578: one subquery, by the path the module's state and the
\* outcomes of its calls select (the paths of SearchStep): the native
\* query, the legacy tier, _dense_search called by a hybrid tier, the dense
\* path, a failed _dense_search, an exception
PsSubquery ==
  /\ pipe.pc = "sub"
  /\ \/ \E h \in Hits(NativeScores, pipe.limit) :
          SubqueryEnds(FALSE, QueryPoints(h, pipe.limit, pipe.min_score))
     \/ \E d \in RankedPoints(2 * pipe.limit),
           s \in RankedPoints(2 * pipe.limit) :
          SubqueryEnds(FALSE,
                       AtLeast(RrfFusion(d, s, pipe.limit), pipe.min_score))
     \/ \E h \in Hits(DenseRaw, 3 * pipe.limit) :
          SubqueryEnds(FALSE, DenseSearchResults(h, pipe.limit))
     \/ \E h \in Hits(DenseRaw, 3 * pipe.limit) :
          SubqueryEnds(FALSE, AtLeast(DenseSearchResults(h, pipe.limit),
                                      pipe.min_score))
     \/ SubqueryEnds(FALSE, <<>>)
     \/ SubqueryEnds(TRUE, <<>>)
  /\ UNCHANGED <<moduleVars, fusion, rr>>

\* the results of all subqueries as they are, without lines 581-583
FinalResultsUnfused == pipe.all_results

\* lines 580-585
FinalResults ==
  IF pipe.expanded /\ pipe.nSub > 1
  THEN FuseMultiQueryResults(pipe.all_results)
  ELSE pipe.all_results

\* lines 580-591: the results are fused, validated and cut to limit
PsFinish ==
  /\ pipe.pc = "finish"
  /\ pipe' = [pipe EXCEPT
       !.pc = "done",
       !.final_results = FinalResults,
       !.quality_results = ValidateSearchQuality(FinalResults),
       !.returned = Take(ValidateSearchQuality(FinalResults), pipe.limit)]
  /\ UNCHANGED <<moduleVars, fusion, rr>>

\* one search() call followed through its result lists
NextPipeline == PsExpand \/ PsSubquery \/ PsFinish

SpecPipeline == InitPipeline /\ [][NextPipeline]_vars

\* C12: when one subquery of search() raises, the request is not aborted:
\* every subquery of queries_to_search has been executed when search() ends,
\* and every result of every other subquery is in the fused list
\* (final_results, lines 580-585)
PipeDone == pipe.pc = "done"
SomeSubqueryRaised == \E i \in 1..Len(pipe.subs) : pipe.subs[i].raised

C12_SubqueryFailureIsolated ==
  (PipeDone /\ SomeSubqueryRaised) =>
    /\ Len(pipe.subs) = pipe.nSub
    /\ \A i \in 1..Len(pipe.subs) :
         Ids(pipe.subs[i].results) \subseteq Ids(pipe.final_results)

C12_Witness ==
  /\ PipeDone /\ pipe.nSub = 2
  /\ pipe.subs[1].raised
  /\ pipe.subs[2].results # <<>>
  /\ Ids(pipe.subs[2].results) \subseteq Ids(pipe.final_results)

\* C13: every result returned by search() has score >= min_score, whichever
\* path produced it
C13_ReturnedAboveMinScore ==
  PipeDone =>
    \A i \in 1..Len(pipe.returned) :
      pipe.returned[i].score >= pipe.min_score

\* C14: the list returned by search() is sorted by score, descending
C14_ReturnedSorted == PipeDone => Sorted(pipe.returned)

SubqueriesReturning(d) ==
  {pipe.all_results[i].sub : i \in {j \in 1..Len(pipe.all_results) :
                                      pipe.all_results[j].id = d}}

C16_FusionScore ==
  (PipeDone /\ pipe.expanded /\ pipe.nSub > 1) =>
    /\ Sorted(pipe.final_results)
    /\ \A i \in 1..Len(pipe.final_results) :
         LET r == pipe.final_results[i]
         IN  r.score = MaxScore(GroupOf(pipe.all_results, r.id))
                       + Cardinality(SubqueriesReturning(r.id)) * (One \div 20)

\* ------------------------------------------------------- _rrf_fusion alone
\* the arguments of one call: two answers of the store and the limit
RrfInputs ==
  UNION {[pc : {"call"}, limit : {l},
          dense_points : Hits(DenseRaw, 2 * l),
          sparse_points : Hits(NativeScores, 2 * l),
          results : {<<>>}] : l \in Limits}

InitRrf ==
  /\ InitModule /\ main0 = NoColl
  /\ pipe = IdlePipe /\ fusion \in RrfInputs /\ rr = IdleRerank

\* line 720: _rrf_fusion(dense_results, sparse_results, limit)
RrfCall ==
  /\ fusion.pc = "call"
  /\ fusion' = [fusion EXCEPT
       !.pc = "done",
       !.results = RrfFusion(fusion.dense_points, fusion.sparse_points,
                             fusion.limit)]
  /\ UNCHANGED <<moduleVars, pipe, rr>>

SpecRrf == InitRrf /\ [][RrfCall]_vars

\* C17: _rrf_fusion with k = 60 scores a document at 0-indexed dense rank r
\* with dense_weight/(k+r+1) and at sparse rank s with
\* sparse_weight/(k+s+1): a document of one list has exactly that
\* contribution, a document of both lists the sum, and a document first in
\* both lists dense_weight/(k+1) + sparse_weight/(k+1)
RrfDone == fusion.pc = "done"
DenseShare(d) ==
  IF d \in Ids(fusion.dense_points)
  THEN (dense_weight * One)
         \div (10 * (rrf_k + RankOf(fusion.dense_points, d) + 1))
  ELSE 0
SparseShare(d) ==
  IF d \in Ids(fusion.sparse_points)
  THEN (sparse_weight * One)
         \div (10 * (rrf_k + RankOf(fusion.sparse_points, d) + 1))
  ELSE 0
FirstInBoth(d) ==
  /\ fusion.dense_points # <<>> /\ fusion.dense_points[1].id = d
  /\ fusion.sparse_points # <<>> /\ fusion.sparse_points[1].id = d

C17_RrfScores ==
  RrfDone =>
    \A i \in 1..Len(fusion.results) :
      LET r == fusion.results[i]
      IN  /\ r.score = DenseShare(r.id) + SparseShare(r.id)
          /\ FirstInBoth(r.id) =>
               r.score = (dense_weight * One) \div (10 * (rrf_k + 1))
                         + (sparse_weight * One) \div (10 * (rrf_k + 1))

C17_Witness ==
  /\ RrfDone /\ Len(fusion.results) = 2
  /\ FirstInBoth(fusion.results[1].id)
  /\ fusion.results[2].id \notin Ids(fusion.sparse_points)
  /\ RankOf(fusion.dense_points, fusion.results[2].id) = 1
  /\ fusion.results[2].score > 0

\* ----------------------------------------------------------------- rerank
\* A result is [id, score, reranked]: `reranked` tells that the score was
\* written from a provider's answer. rr.search_results is the caller's list
\* as it is now (the providers write into its elements and sort it in
\* place), rr.given the list as it was passed in, rr.answer the items of
\* the provider's answer.
MaxItems == 2
TopKs == {1, 2}
RerankMinScores == {(2 * One) \div 5}
Providers == {"cohere", "jina", "llm", "none"}
RelevanceScores == {One \div 5, (3 * One) \div 5}
LlmScores == {0 - One \div 2, One \div 5, (3 * One) \div 5, (3 * One) \div 2}

SearchResultLists ==
  UNION {{s \in [1..n -> [id : Docs, score : NativeScores,
                          reranked : {FALSE}]] :
            \A i, j \in 1..n : i # j => s[i].id # s[j].id} : n \in 0..MaxDocs}

RerankInputs ==
  UNION {[pc : {"start"}, enabled : BOOLEAN, provider : Providers,
          available : BOOLEAN, top_k : TopKs, min_score : RerankMinScores,
          given : {s}, search_results : {s}, rerank_requests : {0},
          outcome : {"none"}, answer : {<<>>}, returned : {<<>>}] :
           s \in SearchResultLists}

InitRerank ==
  /\ InitModule /\ main0 = NoColl
  /\ pipe = IdlePipe /\ fusion = IdleFusion /\ rr \in RerankInputs

\* what a provider answers for n documents: at most top_n items, each the
\* index of a document (from 0) and its relevance score
ProviderAnswers(n, top_n) ==
  UNION {{a \in [1..m -> [index : 0..n - 1, score : RelevanceScores]] :
            \A i, j \in 1..m : i # j => a[i].index # a[j].index}
         : m \in 0..Min(top_n, n)}

\* the 'results' of a JSON object the LLM answers with: the index may be
\* out of range and the score out of [0, 1]
LlmAnswers(n) ==
  UNION {[1..m -> [index : (0 - 1)..n, score : LlmScores]] :
           m \in 0..MaxItems}

\* lines 877-886: rerank() after the provider's method returned
\* reranked_results, having left the caller's list as `results`
RerankReturns(outcome, results, reranked_results) ==
  [rr EXCEPT
    !.pc = "done", !.outcome = outcome, !.search_results = results,
    !.returned = IF reranked_results # <<>>
                 THEN AtLeast(reranked_results, rr.min_score)
                 ELSE results]

\* the early return placed after the counter's increment of line 861
RerankSkipsCounted(outcome) ==
  [rr EXCEPT !.pc = "done", !.outcome = outcome,
             !.returned = rr.search_results,
             !.rerank_requests = @ + 1]

\* lines 853-854 and 873-875: rerank() returns search_results at once
RerankSkips(outcome) ==
  [rr EXCEPT !.pc = "done", !.outcome = outcome,
             !.returned = rr.search_results]

\* lines 853-875, 895-900, 926-969 and 1049-1065: rerank() up to the call
\* of the provider; without an API key _rerank_gpt5_nano returns its
\* argument
RerankStart ==
  /\ rr.pc = "start"
  /\ rr' =
       IF ~rr.enabled \/ rr.search_results = <<>>
       THEN RerankSkips("skipped")
       ELSE [IF rr.provider \in {"cohere", "jina"} /\ rr.available
             THEN [rr EXCEPT !.pc = rr.provider]
             ELSE IF rr.provider = "llm"
             THEN IF rr.available
                  THEN [rr EXCEPT !.pc = "llm"]
                  ELSE RerankReturns("no_api_key", rr.search_results,
                                     rr.search_results)
             ELSE RerankSkips("unavailable")
            EXCEPT !.rerank_requests = @ + 1]
  /\ UNCHANGED <<moduleVars, pipe, fusion>>

\* lines 909-915 and 1078-1084: the answer's scores are written into the
\* original results, which are returned in the answer's order
Rescored(results, answer) ==
  [i \in 1..Len(results) |->
     IF \E j \in 1..Len(answer) : answer[j].index = i - 1
     THEN [results[i] EXCEPT
             !.score = answer[CHOOSE j \in 1..Len(answer) :
                                answer[j].index = i - 1].score,
             !.reranked = TRUE]
     ELSE results[i]]

InAnswerOrder(results, answer) ==
  [j \in 1..Len(answer) |-> results[answer[j].index + 1]]

\* lines 893-921 and 1047-1090 after the call: the provider raised (the
\* handler returns `results`) or answered
ProviderReturns ==
  \/ rr' = RerankReturns("raised", rr.search_results, rr.search_results)
  \/ \E a \in ProviderAnswers(Len(rr.search_results), rr.top_k) :
       LET results == Rescored(rr.search_results, a)
       IN  rr' = [RerankReturns("answered", results,
                                InAnswerOrder(results, a))
                  EXCEPT !.answer = a]

\* lines 893-921: _rerank_cohere
CohereReturns ==
  /\ rr.pc = "cohere"
  /\ ProviderReturns
  /\ UNCHANGED <<moduleVars, pipe, fusion>>

\* lines 1047-1090: _rerank_jina
JinaReturns ==
  /\ rr.pc = "jina"
  /\ ProviderReturns
  /\ UNCHANGED <<moduleVars, pipe, fusion>>

\* the model's scores taken as they are
LlmRerankedUnclamped(results, answer, top_k) ==
  LET items == SelectSeq(Take(answer, top_k),
                         LAMBDA it : 0 <= it.index /\ it.index < Len(results))
  IN  [j \in 1..Len(items) |->
         [id |-> results[items[j].index + 1].id,
          score |-> items[j].score,
          reranked |-> TRUE]]

\* lines 1011-1026: the first top_k items of the answer, those with an
\* index in range, as new results with the score limited to [0, 1]
LlmReranked(results, answer, top_k) ==
  LET items == SelectSeq(Take(answer, top_k),
                         LAMBDA it : 0 <= it.index /\ it.index < Len(results))
  IN  [j \in 1..Len(items) |->
         [id |-> results[items[j].index + 1].id,
          score |-> Max(0, Min(One, items[j].score)),
          reranked |-> TRUE]]

\* lines 970-974, 996-1008: results.sort(reverse=True); results[:top_k]
LlmFallback(outcome) ==
  RerankReturns(outcome, SortDesc(rr.search_results),
                Take(SortDesc(rr.search_results), rr.top_k))

\* lines 960-1045 after the call: the request raised, or the response is
\* empty, holds no '{...}', holds one that does not parse, parses to a JSON
\* value that is no object (its .get raises into line 1043), or is an object
LlmReturns ==
  /\ rr.pc = "llm"
  /\ \/ rr' = RerankReturns("raised", rr.search_results, rr.search_results)
     \/ \E o \in {"empty", "no_json", "bad_json"} : rr' = LlmFallback(o)
     \/ rr' = RerankReturns("not_object", rr.search_results,
                            rr.search_results)
     \/ \E a \in LlmAnswers(Len(rr.search_results)) :
          LET reranked == SortDesc(LlmReranked(rr.search_results, a,
                                               rr.top_k))
          IN  rr' = [RerankReturns("answered", rr.search_results,
                       IF reranked # <<>> THEN reranked
                       ELSE Take(rr.search_results, rr.top_k))
                     EXCEPT !.answer = a]
  /\ UNCHANGED <<moduleVars, pipe, fusion>>

\* one rerank() call
NextRerank == RerankStart \/ CohereReturns \/ JinaReturns \/ LlmReturns

SpecRerank == InitRerank /\ [][NextRerank]_vars

RerankDone == rr.pc = "done"

\* C18: if the selected provider (Cohere, Jina or LLM) raises during
\* rerank(), rerank() returns the original results unchanged: the same
\* elements in the same order with the same scores, none removed
C18_ProviderFailureReturnsOriginal ==
  (RerankDone /\ rr.outcome = "raised") => rr.returned = rr.given

\* C19: when the LLM's response is empty or holds no parseable JSON object,
\* rerank() returns the original results sorted descending by their
\* pre-rerank score and cut to top_k, none of them dropped
C19_LlmUnparseableFallback ==
  (RerankDone /\ rr.outcome \in {"empty", "no_json", "bad_json", "not_object"})
    => rr.returned = Take(SortDesc(rr.given), rr.top_k)

\* C20: after a successful rerank every returned result carries the
\* provider's relevance score, and that score is >= min_score
C20_FilterOnRerankedScores ==
  (RerankDone /\ rr.outcome = "answered") =>
    \A i \in 1..Len(rr.returned) :
      rr.returned[i].reranked /\ rr.returned[i].score >= rr.min_score

\* C21: if reranking is disabled in the configuration or the input list is
\* empty, rerank() returns its input unchanged, calls no provider and leaves
\* the rerank_requests counter unchanged
C21_DisabledOrEmptyPassthrough ==
  (RerankDone /\ (~rr.enabled \/ rr.given = <<>>)) =>
    /\ rr.returned = rr.given
    /\ rr.search_results = rr.given
    /\ rr.outcome = "skipped"
    /\ rr.rerank_requests = 0

C21_Witness ==
  /\ RerankDone /\ ~rr.enabled /\ rr.given # <<>>
  /\ rr.provider = "cohere" /\ rr.available
  /\ rr.returned = rr.given /\ rr.rerank_requests = 0

\* ------------------------------------------- _validate_search_quality alone
\* search() with one subquery whose results are any list: final_results is
\* that list, and lines 588-591 validate it
ValidateScores == {One \div 2, (4 * One) \div 5, One, (21 * One) \div 20}

ResultLists(levels) ==
  UNION {{s \in [1..n -> [id : Docs, score : levels, sub : {1}]] :
            \A i, j \in 1..n : i # j => s[i].id # s[j].id} : n \in 0..MaxDocs}

ValidateInputs ==
  UNION {[pc : {"finish"}, limit : Limits, min_score : {One \div 2},
          nKw : {n}, kw : [Docs -> 0..n],
          content : {[d \in Docs |-> d]}, metaQuery : {[d \in Docs |-> ""]},
          expanded : {FALSE}, nSub : {1},
          subs : {<<[raised |-> FALSE, results |-> l]>>},
          all_results : {l}, final_results : {<<>>},
          quality_results : {<<>>}, returned : {<<>>}]
         : n \in QueryKeywords, l \in ResultLists(ValidateScores)}

InitValidate ==
  /\ InitModule /\ main0 = NoColl
  /\ pipe \in ValidateInputs /\ fusion = IdleFusion /\ rr = IdleRerank

SpecValidate == InitValidate /\ [][PsFinish]_vars

\* C22: for a query with a non-empty keyword set, _validate_search_quality
\* computes relevance_ratio = |query_keywords & content_keywords| /
\* |query_keywords| per result, sets the score to
\* min(1.0, score x (0.7 + 0.3 x relevance_ratio)) and keeps the result if
\* and only if relevance_ratio > 0.1 or the score > 0.7; with 1 of 2
\* keywords matched the score is raw x 0.85 and the result is kept
ClaimedScore(r) ==
  Min(One, (r.score * (7 * pipe.nKw + 3 * pipe.kw[r.id]))
             \div (10 * pipe.nKw))

ClaimedKept(r) ==
  \/ 10 * pipe.kw[r.id] > pipe.nKw
  \/ 10 * ClaimedScore(r) > 7 * One

C22_QualityValidation ==
  (PipeDone /\ pipe.nKw > 0) =>
    /\ pipe.quality_results =
         SelectSeq([i \in 1..Len(pipe.final_results) |->
                      [pipe.final_results[i] EXCEPT
                         !.score = ClaimedScore(pipe.final_results[i])]],
                   LAMBDA r : ClaimedKept(pipe.final_results[
                     CHOOSE i \in 1..Len(pipe.final_results) :
                       pipe.final_results[i].id = r.id]))
    /\ \A i \in 1..Len(pipe.final_results) :
         LET r == pipe.final_results[i]
         IN  (pipe.nKw = 2 /\ pipe.kw[r.id] = 1) =>
               \E j \in 1..Len(pipe.quality_results) :
                 /\ pipe.quality_results[j].id = r.id
                 /\ pipe.quality_results[j].score
                      = Min(One, (r.score * 17) \div 20)

C22_Witness ==
  /\ PipeDone /\ pipe.nKw = 2 /\ Len(pipe.final_results) = 2
  /\ pipe.kw[pipe.final_results[1].id] = 1
  /\ pipe.kw[pipe.final_results[2].id] = 0
  /\ Len(pipe.quality_results) = 1
  /\ pipe.quality_results[1].id = pipe.final_results[1].id
  /\ pipe.quality_results[1].score < pipe.final_results[1].score

\* ------------------------------------------------------ _dense_search alone
\* the arguments of one call and the answer of the store to its query; the
\* cosine scores include the ends of [-1, 1] and values outside it
CosineScores == DenseRaw \cup {0 - One, (3 * One) \div 2}

\* contents that differ, are equal, or differ only in surrounding white space
DenseContents == {<<"a">>, <<Blank, "a">>, <<"b">>}
DenseContentMaps == [Docs -> DenseContents]

DenseInputs ==
  UNION {[pc : {"dense_search"}, limit : {l}, content : DenseContentMaps,
          hits : Hits(CosineScores, 3 * l), failed : {FALSE},
          results : {<<>>}] : l \in Limits}

InitDense ==
  /\ InitModule /\ main0 = NoColl
  /\ pipe \in DenseInputs /\ fusion = IdleFusion /\ rr = IdleRerank

\* lines 737-784: the query raises and [] is returned, or its answer is
\* deduplicated, normalized, sorted and cut to limit
DenseSearchCall ==
  /\ pipe.pc = "dense_search"
  /\ \E ok \in BOOLEAN :
       pipe' = [pipe EXCEPT
         !.pc = "done", !.failed = ~ok,
         !.results = IF ok THEN DenseSearchResults(pipe.hits, pipe.limit)
                     ELSE <<>>]
  /\ UNCHANGED <<moduleVars, fusion, rr>>

SpecDense == InitDense /\ [][DenseSearchCall]_vars

\* C23: _dense_search maps each raw cosine score s to (s + 1) / 2 limited to
\* [0, 1]: raw 1.0 gives 1.0, raw -1.0 gives 0.0, raw 0.0 gives 0.5, and
\* every returned score lies in [0, 1]
RawOf(d) == pipe.hits[CHOOSE i \in 1..Len(pipe.hits) : pipe.hits[i].id = d].score

C23_DenseNormalization ==
  PipeDone =>
    \A i \in 1..Len(pipe.results) :
      LET r == pipe.results[i]
          s == RawOf(r.id)
      IN  /\ r.id \in Ids(pipe.hits)
          /\ 0 <= r.score /\ r.score <= One
          /\ s = One => r.score = One
          /\ s = 0 - One => r.score = 0
          /\ s = 0 => 2 * r.score = One
          /\ (0 - One <= s /\ s <= One) => 2 * r.score = s + One
          /\ s > One => r.score = One
          /\ s < 0 - One => r.score = 0

C23_Witness ==
  /\ PipeDone /\ Len(pipe.results) = 2
  /\ RawOf(pipe.results[1].id) = 0 /\ 2 * pipe.results[1].score = One
  /\ RawOf(pipe.results[2].id) = 0 - One /\ pipe.results[2].score = 0

\* --------------------------------------------- the check-and-migrate section
\* the task is between line 313 and the end of the `async with` block
InCheck(t) ==
  \/ tasks[t].pc \in {"ens_list", "ens_info"}
  \/ /\ tasks[t].pc \in {"init_list", "init_embed", "init_create", "init_stats"}
     /\ tasks[t].initRet = "ens"

InMigrate(t) ==
  \/ tasks[t].pc \in {"mig_info", "mig_delete0", "mig_backup", "mig_scroll",
                      "mig_upsert", "mig_delete", "mig_cleanup"}
  \/ /\ tasks[t].pc \in {"init_list", "init_embed", "init_create", "init_stats"}
     /\ tasks[t].initRet \in {"mig0", "mig"}

InSection(t) == InCheck(t) \/ InMigrate(t)

\* C24: at most one task at a time is inside the check-and-maybe-migrate
\* section: no two schema checks and no two migrations are in flight, and
\* the task inside is the one that holds the collection lock
C24_OneTaskInSection ==
  /\ \A t, u \in Tasks : (InSection(t) /\ InSection(u)) => t = u
  /\ \A t \in Tasks : InSection(t) => lockHolder = t

C24_Witness ==
  \E t, u \in Workers :
    /\ t # u /\ tasks[t].pc = "mig_upsert" /\ lockHolder = t
    /\ tasks[u].pc = "ens_wait" /\ lockWaiters = <<u>>

\* C25: once the verified flag is set it is never reset, and from then on no
\* call of the check is inside the locked section or enters it, the lock
\* gets no new holder except a task that was already waiting for it, nobody
\* starts waiting for it, and the calls change no collection
WaitingFor == {lockWaiters[i] : i \in 1..Len(lockWaiters)}

C25_FlagSetStaysQuiet ==
  [][checked =>
       /\ checked'
       /\ \A t \in Tasks : ~InSection(t) /\ ~InSection(t)'
       /\ lockHolder' \in {NoTask, lockHolder} \cup WaitingFor
       /\ WaitingFor' \subseteq WaitingFor
       /\ colls' = colls]_vars

\* a task that waited for the lock during the first check has returned
C25_Witness ==
  \E t, u \in Workers :
    /\ t # u /\ checked /\ LockFree
    /\ tasks[t].pc = "done" /\ tasks[t].ev = {}
    /\ tasks[u].pc = "done" /\ "waited" \in tasks[u].ev
    /\ tasks[u].result = "returned"

\* ------------------------------------------------ after a failed check
\* the check or its migration failed: lines 357-363 have run
FailedCheck == checked /\ ~hybrid_enabled

\* search() starts a subquery in this step (line 555)
StartsSubquery(t) ==
  /\ tasks[t]'.op = "search"
  /\ tasks[t]'.pc \in {"hs_dense_embed", "dp_embed"}
  /\ tasks[t]'.subLeft # tasks[t].subLeft

HybridQueries == {"native_q", "lg_q", "lg_sq"}

\* C26 as stated: after a failed compatibility check or migration no native
\* fused query and no legacy query is issued again by any search()
C26_NoHybridQueryAfterFailure ==
  [][FailedCheck =>
       \A t \in Workers :
         (tasks[t]'.ev \ tasks[t].ev) \cap HybridQueries = {}]_vars

\* C26: after a failed compatibility check or migration hybrid_enabled stays
\* False, every subquery that search() starts from then on takes the
\* dense-only path, and a subquery on the dense-only path issues no native
\* fused query and no legacy query
C26_LaterSubqueriesDenseOnly ==
  /\ [][FailedCheck =>
          /\ FailedCheck'
          /\ \A t \in Workers :
               StartsSubquery(t) =>
                 /\ tasks[t]'.pc = "dp_embed"
                 /\ tasks[t]'.ev = {"dense_path"}]_vars
  /\ [](\A t \in Workers :
          Saw(t, "dense_path") =>
            tasks[t].ev \cap (HybridQueries \cup {"hybrid", "lg_invoked"}) = {})

\* a subquery that started after the failure has queried the dense field
C26_Witness ==
  /\ FailedCheck /\ sparse_embedder
  /\ tasks[SearchTask].op = "search" /\ tasks[SearchTask].pc = "done"
  /\ tasks[SearchTask].ev = {"dense_path", "dense_q"}

\* C27: when the migration of a non-empty collection fails after its backup
\* collection was created, the collection the failure handler goes on to
\* delete is that backup collection and no other
C27_CleanupDeletesOwnBackup ==
  \A t \in Workers :
    tasks[t].pc = "mig_cleanup" =>
      \A k \in 0..MaxTime :
        colls[BackupName(k)].exists => tasks[t].bname = BackupName(k)

\* ------------------------------------------------- recreate_collection
\* lines 1469-1475: recreate_collection is called on the initialized module,
\* before any call of the compatibility check
StartRecreate(t) ==
  /\ t = MainTask /\ At(t, "done") /\ tasks[t].op = "initialize"
  /\ initialized = "ready"
  /\ \A w \in Workers : At(w, "idle")
  /\ initialized' = "recreating"
  /\ tasks' = [tasks EXCEPT ![t] = [@ EXCEPT !.pc = "rc_delete",
                                               !.op = "recreate",
                                               !.result = "none"]]
  /\ UNCHANGED restVars
  /\ UNCHANGED <<colls, now, hybrid_enabled, sparse_embedder, checked,
                 collection_initialized, stats, lockHolder, lockWaiters,
                 nextId, migrations, faulted>>

\* lines 1477-1486: delete_collection, its error swallowed, then
\* _init_collection
RcDelete(t) ==
  /\ At(t, "rc_delete")
  /\ \E ok \in BOOLEAN :
       /\ Fault(ok)
       /\ colls' = IF ok THEN DeleteCollection(collection_name) ELSE colls
  /\ Goto(t, [tasks[t] EXCEPT !.pc = "init_list", !.initRet = "rc"])
  /\ UNCHANGED restVars
  /\ UNCHANGED <<now, sparse_embedder, collection_initialized,
                 stats, nextId, migrations>>

RecreateStep(t) == StartRecreate(t) \/ RcDelete(t)

\* initialize, possibly one recreate_collection, then concurrent direct calls
\* of the compatibility check
NextRecreate ==
  \/ \E t \in Tasks : LifecycleStep(t)
  \/ RecreateStep(MainTask)
  \/ Tick

SpecRecreate == Init /\ [][NextRecreate]_vars

\* the task's check found no collection at line 322 and called
\* _init_collection (line 324)
TookMissingPath(t) == tasks[t].op = "ensure" /\ tasks[t].initRet = "ens"

\* C28: a compatibility check that finds the collection missing starts no
\* migration and creates no backup; when it ends the verified flag is set,
\* and unless one of its store calls raised the collection exists, empty,
\* with the unnamed dense field and the sparse field "keywords"
C28_MissingCollectionCreatedHybrid ==
  \A t \in Workers :
    TookMissingPath(t) =>
      /\ migrations = 0
      /\ \A k \in 0..MaxTime : ~colls[BackupName(k)].exists
      /\ ~InMigrate(t)
      /\ tasks[t].pc = "done" =>
           /\ checked
           /\ ~tasks[t].failed =>
                /\ Main.exists /\ SchemaOf(Main) = HybridSchema
                /\ Main.pts = {} /\ hybrid_enabled

C28_Witness ==
  \E t \in Workers :
    /\ TookMissingPath(t) /\ tasks[t].pc = "done" /\ ~tasks[t].failed
    /\ main0.exists /\ main0.pts # {}
    /\ Main.exists /\ SchemaOf(Main) = HybridSchema /\ checked

\* ------------------------------------------------------------- progress
\* a step of task t that follows the return or the raise of a call the task
\* awaited, or its wake-up by the lock
Resume(t) ==
  \/ BootQdrant(t) \/ InitList(t) \/ InitEmbed(t) \/ InitCreate(t)
  \/ InitStats(t) \/ EnsureEnter(t) \/ EnsWake(t) \/ EnsList(t) \/ EnsInfo(t)
  \/ MigInfo(t) \/ MigDelete0(t) \/ MigBackup(t) \/ MigScroll(t)
  \/ MigUpsert(t) \/ MigDelete(t) \/ MigCleanup(t)

\* every awaited call terminates and the event loop runs every task that is
\* ready to run
SpecEnsureFair ==
  Init /\ [][NextEnsure]_vars /\ \A t \in Tasks : WF_vars(Resume(t))

InCall(t) == tasks[t].op = "ensure" /\ tasks[t].pc # "done"

\* C29: every call of _ensure_hybrid_collection_compatibility eventually
\* returns, and whenever no call is in progress the collection lock is held
\* by nobody and awaited by nobody
C29_EveryCallReturns ==
  /\ \A t \in Workers : InCall(t) ~> (tasks[t].pc = "done")
  /\ []((\A t \in Workers : ~InCall(t)) => LockFree)

\* two calls have returned after a failed migration, one of them having
\* waited for the lock
C29_Witness ==
  \E t, u \in Workers :
    /\ t # u /\ LockFree /\ migrations = 1 /\ ~hybrid_enabled
    /\ tasks[t].pc = "done" /\ tasks[t].failed
    /\ tasks[t].initRet = "mig"
    /\ tasks[u].pc = "done" /\ "waited" \in tasks[u].ev

\* -------------------------------------------- _fuse_multi_query_results alone
\* the result lists of two subqueries, appended to all_results in one order
\* and in the other (lines 553-574)
FuseInputs ==
  [pc : {"fuse"}, metaQuery : MetaQueryMaps,
   first : Hits(NativeScores, MaxDocs), second : Hits(NativeScores, MaxDocs),
   fused : {<<>>}, fusedSwapped : {<<>>}]

InitFuse ==
  /\ InitModule /\ main0 = NoColl
  /\ pipe \in FuseInputs /\ fusion = IdleFusion /\ rr = IdleRerank

\* lines 1560-1602 on both orders of arrival
FuseCall ==
  /\ pipe.pc = "fuse"
  /\ pipe' = [pipe EXCEPT
       !.pc = "done",
       !.fused = FuseMultiQueryResults(pipe.first \o pipe.second),
       !.fusedSwapped = FuseMultiQueryResults(pipe.second \o pipe.first)]
  /\ UNCHANGED <<moduleVars, fusion, rr>>

SpecFuse == InitFuse /\ [][FuseCall]_vars

IdScores(s) == [i \in 1..Len(s) |-> <<s[i].id, s[i].score>>]

\* C30: multi-query fusion returns the same ordered list of (id, score)
\* whatever order the subqueries' results were appended to all_results,
\* also when several documents have equal final scores
C30_FusionOrderIndependent ==
  PipeDone => IdScores(pipe.fused) = IdScores(pipe.fusedSwapped)

\* C31: the list returned by _dense_search has at most limit results, is
\* sorted by decreasing normalized score, holds no two results whose contents
\* are equal after stripping, and of several hits of the store with the same
\* stripped content only the first in the store's order can be returned
HitIndex(d) == CHOOSE i \in 1..Len(pipe.hits) : pipe.hits[i].id = d

C31_DenseLimitSortedUnique ==
  PipeDone =>
    /\ Len(pipe.results) <= pipe.limit
    /\ Sorted(pipe.results)
    /\ Ids(pipe.results) \subseteq Ids(pipe.hits)
    /\ \A i, j \in 1..Len(pipe.results) :
         i # j => Strip(pipe.content[pipe.results[i].id])
                    # Strip(pipe.content[pipe.results[j].id])
    /\ \A i \in 1..Len(pipe.results) : \A k \in 1..Len(pipe.hits) :
         Strip(pipe.content[pipe.hits[k].id])
             = Strip(pipe.content[pipe.results[i].id])
           => HitIndex(pipe.results[i].id) <= k

\* two hits whose contents differ only in white space: the first is returned
C31_Witness ==
  /\ PipeDone /\ ~pipe.failed /\ pipe.limit = 2 /\ Len(pipe.hits) = 2
  /\ pipe.content[pipe.hits[1].id] # pipe.content[pipe.hits[2].id]
  /\ Strip(pipe.content[pipe.hits[1].id]) = Strip(pipe.content[pipe.hits[2].id])
  /\ Len(pipe.results) = 1 /\ pipe.results[1].id = pipe.hits[1].id

\* the items of the LLM's answer that rerank reads (line 1013) and, of
\* these, the ones whose index names an input result (line 1017)
ItemsRead == Take(rr.answer, rr.top_k)
UsableItems ==
  SelectSeq(ItemsRead, LAMBDA it : 0 <= it.index /\ it.index < Len(rr.given))

LlmAnswered == RerankDone /\ rr.provider = "llm" /\ rr.outcome = "answered"

C33_ReturnedIsSubset ==
  RerankDone =>
    /\ Ids(rr.returned) \subseteq Ids(rr.given)
    /\ \A i, j \in 1..Len(rr.returned) :
         i # j => rr.returned[i].id # rr.returned[j].id

\* C34: if the configured provider lacks its credentials (Cohere or Jina not
\* among the rerankers built at init, the LLM without an API key), rerank()
\* returns its input unchanged: same elements, same order, same scores, none
\* filtered out
C34_MissingCredentialsPassthrough ==
  (/\ RerankDone /\ rr.enabled /\ rr.given # <<>>
   /\ rr.provider \in {"cohere", "jina", "llm"} /\ ~rr.available)
    => /\ rr.returned = rr.given
       /\ rr.search_results = rr.given

\* C35: the hybrid schema has exactly one named sparse field and every
\* operation uses it: on the collection that _init_collection creates in
\* hybrid mode, a point written by add_documents with a sparse vector fits,
\* the compatibility check finds the sparse field, and both the native tier
\* and the legacy tier can query it
C35_OneSparseFieldName ==
  (~main0.exists /\ Main.exists /\ SchemaOf(Main) = HybridSchema) =>
    /\ Cardinality(Main.sparse) = 1
    /\ PointFits(Point(1, TRUE), Main)
    /\ ~NeedsHybridSupport(Main)
    /\ CanNativeQuery
    /\ CanLegacySparseQuery

\* ---------------------------------------------- _legacy_hybrid_search alone
\* the arguments of one call and what the store would answer to its two
\* queries and to the query of _dense_search
LegacyContent == [d \in Docs |-> [i \in 1..d |-> "x"]]

LegacyInputs ==
  UNION {[pc : {"legacy"}, limit : {l}, min_score : MinScores,
          content : {LegacyContent},
          dense_points : RankedPoints(2 * l),
          sparse_points : RankedPoints(2 * l),
          hits : Hits(DenseRaw, 3 * l),
          path : {"none"}, fused : {<<>>}, results : {<<>>}] : l \in Limits}

InitLegacy ==
  /\ InitModule /\ main0 = NoColl
  /\ pipe \in LegacyInputs /\ fusion = IdleFusion /\ rr = IdleRerank

\* the fused list as it is, without lines 722-725
LegacyUnfiltered(fused_results, min_score) == fused_results

\* lines 722-725: result.score >= min_score
LegacyFiltered(fused_results, min_score) == AtLeast(fused_results, min_score)

\* lines 697-728: both queries answered, the answers fused and filtered
LegacyFused ==
  LET f == RrfFusion(pipe.dense_points, pipe.sparse_points, pipe.limit)
  IN  pipe' = [pipe EXCEPT
        !.pc = "done", !.path = "fused", !.fused = f,
        !.results = LegacyFiltered(f, pipe.min_score)]

\* lines 687-689 and 730-735: no sparse embedding, or a call of the try
\* block raised and the handler's embed_query succeeded: _dense_search's
\* return value, with no min_score filter, is returned
LegacyDense ==
  \E ok \in BOOLEAN :
    pipe' = [pipe EXCEPT
      !.pc = "done", !.path = "dense",
      !.results = IF ok THEN DenseSearchResults(pipe.hits, pipe.limit)
                  ELSE <<>>]

\* lines 733-735: the handler's embed_query raises, and so does the call
LegacyRaises == pipe' = [pipe EXCEPT !.pc = "done", !.path = "raised"]

\* lines 671-735: one call of _legacy_hybrid_search
LegacyHybridCall ==
  /\ pipe.pc = "legacy"
  /\ LegacyFused \/ LegacyDense \/ LegacyRaises
  /\ UNCHANGED <<moduleVars, fusion, rr>>

SpecLegacy == InitLegacy /\ [][LegacyHybridCall]_vars

\* the largest score _rrf_fusion can give: first in both answers
RrfBound == ((dense_weight + sparse_weight) * One) \div (10 * (rrf_k + 1))

FusedWithinBound ==
  \A i \in 1..Len(pipe.fused) : pipe.fused[i].score <= RrfBound

\* C36 as stated: every score of _rrf_fusion is at most
\* (dense_weight + sparse_weight) / 61, and _legacy_hybrid_search returns an
\* empty list whenever min_score exceeds that bound, the default 0.5 included
C36_LegacyEmptyAboveBound ==
  PipeDone =>
    /\ FusedWithinBound
    /\ One \div 2 > RrfBound
    /\ pipe.min_score > RrfBound => pipe.results = <<>>

\* C36: every score of _rrf_fusion is at most
\* (dense_weight + sparse_weight) / 61, which the default min_score 0.5
\* exceeds; a call of _legacy_hybrid_search whose two queries are answered
\* returns an empty list whenever min_score exceeds that bound, and a call
\* that falls back to _dense_search returns that function's list unfiltered
C36_FusedPathEmptyAboveBound ==
  PipeDone =>
    /\ FusedWithinBound
    /\ One \div 2 > RrfBound
    /\ (pipe.path = "fused" /\ pipe.min_score > RrfBound) =>
         pipe.results = <<>>
    /\ (pipe.path = "fused" /\ pipe.min_score <= RrfBound) =>
         pipe.results = AtLeast(pipe.fused, pipe.min_score)
    /\ pipe.path = "dense" =>
         pipe.results \in {<<>>, DenseSearchResults(pipe.hits, pipe.limit)}

C36_Witness ==
  /\ PipeDone /\ pipe.path = "fused"
  /\ pipe.min_score = One \div 2
  /\ pipe.fused # <<>> /\ pipe.fused[1].score = RrfBound
  /\ pipe.results = <<>>

\* C37: rerank() does not modify its input: after any call, whatever the
\* provider and whether it answered, fell back or failed, the caller's list
\* is in its original order and every result in it has the score it had
\* before the call
C37_InputUnmodified == RerankDone => rr.search_results = rr.given

\* ------------------------------------------------- delete_all_documents
\* line 1411: scroll(limit=10000)
ScrollLimit == 10000

DeletePoints(name, points) == [colls EXCEPT ![name].pts = @ \ points]

\* lines 1373-1385: the manual creation names its dense field "dense" and,
\* with hybrid enabled, puts "sparse" into the same vectors_config
ManualSchema ==
  IF hybrid_enabled THEN NamedSchema ELSE VectorsOnly({"dense"}, TRUE)

\* lines 1321-1331: delete_all_documents is called on the initialized module
StartDeleteAll(t) ==
  /\ t = MainTask /\ At(t, "done") /\ tasks[t].op = "initialize"
  /\ initialized = "ready"
  /\ Goto(t, [tasks[t] EXCEPT !.pc = "da_stats", !.op = "delete_all",
                               !.result = "none", !.failed = FALSE])
  /\ UNCHANGED <<colls, now, sparse_embedder, collection_initialized, stats,
                 nextId, migrations, faulted>>

\* lines 1333-1338 with 1226-1228 and 287-299: get_stats refreshes the
\* counters unless the store's call raises, which is swallowed; zero
\* documents in self.stats returns True at once
DaInitialStats(t) ==
  /\ At(t, "da_stats")
  /\ \E ok \in BOOLEAN :
       /\ ok => Main.exists
       /\ Fault(ok)
       /\ stats' = IF ok THEN UpdateCollectionStats ELSE stats
  /\ Goto(t, IF stats'.total_documents = 0
             THEN Finish(tasks[t], "True")
             ELSE [tasks[t] EXCEPT !.pc = "da_delete"])
  /\ UNCHANGED <<colls, now, sparse_embedder, collection_initialized,
                 nextId, migrations>>

\* lines 1343-1358: delete_collection, then _init_collection; an exception
\* of either leads to the manual creation
DaDelete(t) ==
  /\ At(t, "da_delete")
  /\ \E ok \in BOOLEAN :
       /\ Fault(ok)
       /\ IF ok
          THEN /\ colls' = DeleteCollection(collection_name)
               /\ Goto(t, [tasks[t] EXCEPT !.pc = "init_list",
                                            !.initRet = "da"])
          ELSE /\ colls' = colls
               /\ Goto(t, [Raised(tasks[t]) EXCEPT !.pc = "da_embed"])
  /\ UNCHANGED <<now, sparse_embedder, collection_initialized, stats,
                 nextId, migrations>>

\* lines 1363-1370: the test embedding of the manual creation
DaManualEmbed(t) ==
  /\ At(t, "da_embed")
  /\ \E ok \in BOOLEAN :
       /\ Fault(ok)
       /\ Goto(t, IF ok THEN [tasks[t] EXCEPT !.pc = "da_create"]
                  ELSE [Raised(tasks[t]) EXCEPT !.pc = "da_fb_get"])
  /\ UNCHANGED <<colls, now, sparse_embedder, collection_initialized, stats,
                 nextId, migrations>>

\* lines 1387-1400: create_collection; created, the fallback is skipped
DaManualCreate(t) ==
  /\ At(t, "da_create")
  /\ \E ok \in BOOLEAN :
       /\ ok => CanCreate(collection_name)
       /\ Fault(ok)
       /\ IF ok
          THEN /\ colls' = CreateCollection(collection_name, ManualSchema)
               /\ Goto(t, [tasks[t] EXCEPT !.pc = "da_final"])
          ELSE /\ colls' = colls
               /\ Goto(t, [Raised(tasks[t]) EXCEPT !.pc = "da_fb_get"])
  /\ UNCHANGED <<now, sparse_embedder, collection_initialized, stats,
                 nextId, migrations>>

\* lines 1403-1411 and 1436-1438: get_collection; its exception ends the
\* fallback
DaFallbackGet(t) ==
  /\ At(t, "da_fb_get")
  /\ \E ok \in BOOLEAN :
       /\ ok => Main.exists
       /\ Fault(ok)
       /\ Goto(t, IF ok THEN [tasks[t] EXCEPT !.pc = "da_fb_scroll"]
                  ELSE [Raised(tasks[t]) EXCEPT !.pc = "da_final"])
  /\ UNCHANGED <<colls, now, sparse_embedder, collection_initialized, stats,
                 nextId, migrations>>

\* lines 1413-1422 and 1433-1434: one scroll page of at most 10000 points
DaFallbackScroll(t) ==
  /\ At(t, "da_fb_scroll")
  /\ \E ok \in BOOLEAN :
       /\ ok => Main.exists
       /\ Fault(ok)
       /\ IF ok
          THEN \E S \in SUBSET Main.pts :
                 /\ Cardinality(S) = Min(ScrollLimit, Cardinality(Main.pts))
                 /\ Goto(t, [tasks[t] EXCEPT
                        !.scrolled = S,
                        !.pc = IF S = {} THEN "da_final" ELSE "da_fb_delete"])
          ELSE Goto(t, [Raised(tasks[t]) EXCEPT !.pc = "da_final"])
  /\ UNCHANGED <<colls, now, sparse_embedder, collection_initialized, stats,
                 nextId, migrations>>

\* lines 1424-1431: the scrolled points are deleted by id
DaFallbackDelete(t) ==
  /\ At(t, "da_fb_delete")
  /\ \E ok \in BOOLEAN :
       /\ ok => Main.exists
       /\ Fault(ok)
       /\ colls' = IF ok
                   THEN DeletePoints(collection_name, tasks[t].scrolled)
                   ELSE colls
       /\ Goto(t, [IF ok THEN tasks[t] ELSE Raised(tasks[t])
                   EXCEPT !.pc = "da_final"])
  /\ UNCHANGED <<now, sparse_embedder, collection_initialized, stats,
                 nextId, migrations>>

\* lines 1441-1444: the counters are set to zero
StatsReset == [stats EXCEPT !.total_documents = 0]

\* lines 1441-1457 with 1226-1228 and 287-299: the counters are set to zero,
\* get_stats refreshes them unless the store's call raises, and the result is
\* whether self.stats then counts zero documents; get_stats itself raises
\* nothing, so lines 1459-1463 are not reached
DaFinal(t) ==
  /\ At(t, "da_final")
  /\ \E ok \in BOOLEAN :
       /\ ok => Main.exists
       /\ Fault(ok)
       /\ stats' = IF ok THEN UpdateCollectionStats ELSE StatsReset
  /\ Goto(t, Finish(tasks[t], IF stats'.total_documents = 0 THEN "True"
                              ELSE "False"))
  /\ UNCHANGED <<colls, now, sparse_embedder, collection_initialized,
                 nextId, migrations>>

DeleteAllStep(t) ==
  \/ StartDeleteAll(t) \/ DaInitialStats(t) \/ DaDelete(t)
  \/ DaManualEmbed(t) \/ DaManualCreate(t)
  \/ DaFallbackGet(t) \/ DaFallbackScroll(t) \/ DaFallbackDelete(t)
  \/ DaFinal(t)

\* initialize, then one delete_all_documents
NextDeleteAll == BootStep(MainTask) \/ DeleteAllStep(MainTask)

SpecDeleteAll == Init /\ [][NextDeleteAll]_vars

DeleteAllReturned(res) ==
  /\ tasks[MainTask].op = "delete_all" /\ At(MainTask, "done")
  /\ tasks[MainTask].result = res

\* C38: delete_all_documents returns True only if the collection holds zero
\* points when it returns, whichever of the collection delete, the
\* recreation, the manual creation, the per-point deletion and the final
\* statistics read failed
C38_TrueMeansCleared == DeleteAllReturned("True") => Main.pts = {}

\* ------------------------------------------- _rerank_gpt5_nano's prompt
\* line 939: results[:12]; line 941: result.content[:300]
PromptLimit == 12
PreviewLimit == 300
Newline == "\n"

\* line 941: result.content[:300].replace('\n', ' ')
Preview(content) ==
  [i \in 1..Min(PreviewLimit, Len(content)) |->
     IF content[i] = Newline THEN Blank ELSE content[i]]

\* lines 938-942: one line "[i] preview..." for each of the first 12 results;
\* `id` tells which document the line shows
PromptDocuments(results) ==
  [i \in 1..Min(PromptLimit, Len(results)) |->
     [index |-> i - 1, id |-> results[i].id,
      preview |-> Preview(results[i].content)]]

\* a short text with a line break, and a text of 301 characters
PromptContents ==
  {<<"a", Newline, "b">>, [i \in 1..PreviewLimit + 1 |-> "x"]}
PromptSizes == {1, PromptLimit, PromptLimit + 1}

\* the n results of a search, document i at position i
PromptResults(n, content) ==
  [i \in 1..n |-> [id |-> i,
                   score |-> IF i % 2 = 1 THEN One \div 4 ELSE One \div 2,
                   reranked |-> FALSE, content |-> content]]

\* the 'results' of the judge's JSON object: no item, or one item
PromptAnswers(n) ==
  {<<>>} \cup {<<[index |-> k, score |-> s]>> :
                 k \in (0 - 1)..n, s \in {One \div 5, (3 * One) \div 2}}

PromptInputs ==
  [pc : {"llm_prompt"}, top_k : TopKs,
   results : {PromptResults(n, c) : n \in PromptSizes, c \in PromptContents},
   prompt : {<<>>}, outcome : {"none"}, answer : {<<>>}, returned : {<<>>}]

InitPrompt ==
  /\ InitModule /\ main0 = NoColl
  /\ pipe = IdlePipe /\ fusion = IdleFusion /\ rr \in PromptInputs

\* lines 923-1044 with an API key: the prompt is built and sent; the request
\* raises or its answer is no JSON object (the argument is returned), the
\* answer is empty or holds no parseable JSON (the argument is sorted in
\* place and cut to top_k), or the items of the answer are read
LlmPromptCall ==
  /\ rr.pc = "llm_prompt"
  /\ LET shown == [rr EXCEPT !.pc = "done",
                             !.prompt = PromptDocuments(rr.results)]
     IN  \/ \E o \in {"raised", "not_object"} :
              rr' = [shown EXCEPT !.outcome = o, !.returned = rr.results]
         \/ \E o \in {"empty", "no_json", "bad_json"} :
              rr' = [shown EXCEPT
                       !.outcome = o, !.results = SortDesc(rr.results),
                       !.returned = Take(SortDesc(rr.results), rr.top_k)]
         \/ \E a \in PromptAnswers(Len(rr.results)) :
              LET reranked == SortDesc(LlmReranked(rr.results, a, rr.top_k))
              IN  rr' = [shown EXCEPT
                           !.outcome = "answered", !.answer = a,
                           !.returned = IF reranked # <<>> THEN reranked
                                        ELSE Take(rr.results, rr.top_k)]
  /\ UNCHANGED <<moduleVars, pipe, fusion>>

SpecPrompt == InitPrompt /\ [][LlmPromptCall]_vars

ShownIds == {rr.prompt[j].id : j \in 1..Len(rr.prompt)}

\* C39: the LLM judge is shown at most 12 candidates, the first 12 input
\* results, each preview at most 300 characters, and every result returned
\* by a successful LLM rerank is one of the candidates in the prompt
C39_ReturnedWereShown ==
  RerankDone =>
    /\ Len(rr.prompt) <= PromptLimit
    /\ \A j \in 1..Len(rr.prompt) :
         /\ rr.prompt[j].id = j
         /\ Len(rr.prompt[j].preview) <= PreviewLimit
    /\ rr.outcome = "answered" =>
         \A i \in 1..Len(rr.returned) : rr.returned[i].id \in ShownIds

====
